---------------------------- MODULE Spec2Model ----------------------------
(***************************************************************************)
(* Model of the finmate analytics engine (utils/analytics.ts) and of the   *)
(* way the dashboard constructs it from the transaction store's list.      *)
(*                                                                         *)
(* Numbers: transaction amounts are integers; every quotient the engine    *)
(* computes (savingsRate, averageDaily, percentage, growth) is kept as an  *)
(* exact fraction <<numerator, denominator>> in lowest terms.              *)
(* The percentages of one specification are kept as IEEE 754 doubles.      *)
(* Time: an instant is counted in half hours since 2023-01-01T00:00Z (a    *)
(* Sunday).  A date string 'YYYY-MM-DD' parses to UTC midnight; the        *)
(* windows of the queries begin and end at local midnight, which lies the  *)
(* zone's UTC offset, daylight saving time included, away from it.         *)
(***************************************************************************)
EXTENDS Integers, Sequences, FiniteSets, TLC

VARIABLES
  now,           \* the wall clock's local calendar date [y, m, d], m in 0..11
  tz,            \* the local time zone: [offset: hours east of UTC, dst: rule]
  list,          \* the caller's array (the store's `transactions` state)
  transactions,  \* AnalyticsEngine.transactions (the snapshot)
  constructed,   \* TRUE once `new AnalyticsEngine(list)` has run
  result,        \* the value returned by the last query, tagged by its name
  call,          \* the frame of a running getFinancialHealthScore()
  millis,        \* Date.now()
  store,         \* TransactionProvider: the `transactions` state
  updates,       \* the state updates requested since the last render
  promises,      \* the promises addTransactions returned
  settings,      \* AppSettingsProvider's state and App's userSalary
  history        \* what store and settings held before each currency change

appVars == <<call, millis, store, updates, promises, settings, history>>
vars ==
  <<now, tz, list, transactions, constructed, result, call, millis, store,
    updates, promises, settings, history>>

-----------------------------------------------------------------------------
(* Bounds of the model                                                     *)

MaxTx == 2          \* longest caller list of the general specification
MaxCatTx == 6       \* longest caller list of the category specification
MaxCalTx == 1       \* longest caller list of the calendar specification
MaxCmpTx == 3       \* longest caller list of the category comparison
MaxBalTx == 4       \* longest caller list of the balance specification
MaxVarTx == 6       \* longest caller list of the variation specification

(* Program constants                                                       *)

TopN == 5           \* .slice(0, 5)
TrendMonths == 6    \* for (let i = 5; i >= 0; i--)

-----------------------------------------------------------------------------
(* Exact arithmetic on fractions                                           *)

Abs(x) == IF x < 0 THEN -x ELSE x

RECURSIVE GCD(_, _)
GCD(a, b) == IF b = 0 THEN a ELSE GCD(b, a % b)

Sign(x) == IF x < 0 THEN -1 ELSE IF x > 0 THEN 1 ELSE 0

\* the number n / d in lowest terms with a positive denominator; division by
\* zero gives <<0, 0>> (NaN), <<1, 0>> (Infinity) or <<-1, 0>> (-Infinity)
Rat(n, d) ==
  IF d = 0 THEN <<Sign(n), 0>>
  ELSE LET s == IF d < 0 THEN -1 ELSE 1
           g == GCD(Abs(n), Abs(d))
       IN  <<(s * n) \div g, (s * d) \div g>>

IsFinite(r) == r[2] # 0

FromInt(n) == <<n, 1>>
RZero == <<0, 1>>
RMul(p, q) ==
  LET a == Rat(p[1], q[2])
      b == Rat(q[1], p[2])
  IN  Rat(a[1] * b[1], a[2] * b[2])
RDiv(p, q) == RMul(p, Rat(q[2], q[1]))
RAdd(p, q) == Rat(p[1] * q[2] + q[1] * p[2], p[2] * q[2])
RSub(p, q) == RAdd(p, <<-q[1], q[2]>>)
RLeq(p, q) == p[1] * q[2] <= q[1] * p[2]
RLess(p, q) == p[1] * q[2] < q[1] * p[2]
RMin(p, q) == IF RLeq(p, q) THEN p ELSE q
RMax(p, q) == IF RLeq(p, q) THEN q ELSE p

-----------------------------------------------------------------------------
(* Numbers with one square root: [rat, sgn, root] is rat + sgn * sqrt(root) *)
(* with sgn in {-1, 0, 1}; Math.sqrt is the only irrational step of the     *)
(* engine (calculateVariation)                                              *)

RECURSIVE ISqrtIn(_, _, _)
ISqrtIn(n, lo, hi) ==     \* the largest k in lo..hi with k * k <= n
  IF lo = hi THEN lo
  ELSE LET mid == (lo + hi + 1) \div 2
       IN  IF mid * mid <= n THEN ISqrtIn(n, mid, hi)
           ELSE ISqrtIn(n, lo, mid - 1)

ISqrt(n) == ISqrtIn(n, 0, IF n < 46340 THEN n ELSE 46340)
IsSquare(n) == ISqrt(n) * ISqrt(n) = n

FromRat(r) == [rat |-> r, sgn |-> 0, root |-> RZero]

\* Math.sqrt(r) for r >= 0
Sqrt(r) ==
  IF IsSquare(r[1]) /\ IsSquare(r[2])
  THEN FromRat(Rat(ISqrt(r[1]), ISqrt(r[2])))
  ELSE [rat |-> RZero, sgn |-> 1, root |-> r]

NNeg(x) == [rat |-> <<-x.rat[1], x.rat[2]>>, sgn |-> -x.sgn, root |-> x.root]
\* x + y where at most one of the two carries a root
NAdd(x, y) ==
  [rat |-> RAdd(x.rat, y.rat),
   sgn |-> IF x.sgn # 0 THEN x.sgn ELSE y.sgn,
   root |-> IF x.sgn # 0 THEN x.root ELSE y.root]
NSub(x, y) == NAdd(x, NNeg(y))
\* x * w for a fraction w
NScale(x, w) ==
  IF w[1] = 0 THEN FromRat(RZero)
  ELSE [rat |-> RMul(x.rat, w),
        sgn |-> x.sgn * Sign(w[1]),
        root |-> IF x.sgn = 0 THEN RZero ELSE RMul(x.root, RMul(w, w))]
\* x >= 0
NNonNeg(x) ==
  CASE x.sgn = 0 -> x.rat[1] >= 0
    [] x.sgn = 1 -> x.rat[1] >= 0 \/ RLeq(RMul(x.rat, x.rat), x.root)
    [] x.sgn = -1 -> x.rat[1] >= 0 /\ RLeq(x.root, RMul(x.rat, x.rat))
NGeq(x, y) == NNonNeg(NSub(x, y))
NLeq(x, y) == NGeq(y, x)
NGt(x, y) == ~NLeq(x, y)
NLt(x, y) == ~NGeq(x, y)
NMin(x, y) == IF NLeq(x, y) THEN x ELSE y
NMax(x, y) == IF NGeq(x, y) THEN x ELSE y
NInt(n) == FromRat(FromInt(n))

\* Math.floor(x)
NFloor(x) ==
  LET base == x.rat[1] \div x.rat[2]
      span == ISqrt(x.root[1] \div x.root[2]) + 2
  IN  CHOOSE n \in (base - span)..(base + span) :
        NGeq(x, NInt(n)) /\ NLt(x, NInt(n + 1))

\* Math.round(x): the nearest integer, halves towards +Infinity
Round(x) == NFloor(NAdd(x, FromRat(<<1, 2>>)))

-----------------------------------------------------------------------------
(* IEEE 754 double precision, for the quotients whose last bit matters.     *)
(* A natural number is the sequence of its digits in base 2^15, least       *)
(* significant first, without leading zero digits (<<>> is 0).  A double    *)
(* d > 0 is [m, e] with m of 53 binary places and value m * 2^e, and        *)
(* [m |-> <<>>, e |-> 0] is 0.  Division and multiplication round the       *)
(* exact result to the nearest double, ties to the even mantissa.           *)

Base == 2^15

RECURSIVE Trim(_)
Trim(x) ==
  IF x # <<>> /\ x[Len(x)] = 0 THEN Trim(SubSeq(x, 1, Len(x) - 1)) ELSE x

BigOf(n) == Trim(<<n % Base, n \div Base>>)

RECURSIVE AddDigits(_, _, _)
AddDigits(x, y, carry) ==
  IF x = <<>> /\ y = <<>> THEN (IF carry = 0 THEN <<>> ELSE <<carry>>)
  ELSE LET sum == (IF x = <<>> THEN 0 ELSE Head(x))
                  + (IF y = <<>> THEN 0 ELSE Head(y)) + carry
       IN  <<sum % Base>> \o AddDigits(IF x = <<>> THEN x ELSE Tail(x),
                                       IF y = <<>> THEN y ELSE Tail(y),
                                       sum \div Base)

BigAdd(x, y) == Trim(AddDigits(x, y, 0))

\* x * n for 0 <= n < 2^15
RECURSIVE TimesDigits(_, _, _)
TimesDigits(x, n, carry) ==
  IF x = <<>> THEN (IF carry = 0 THEN <<>> ELSE <<carry>>)
  ELSE LET product == Head(x) * n + carry
       IN  <<product % Base>> \o TimesDigits(Tail(x), n, product \div Base)

BigTimes(x, n) == Trim(TimesDigits(x, n, 0))

BigLeq(x, y) ==
  \/ Len(x) < Len(y)
  \/ /\ Len(x) = Len(y)
     /\ LET differ == {i \in 1..Len(x) : x[i] # y[i]}
        IN  \/ differ = {}
            \/ LET top == CHOOSE i \in differ : \A j \in differ : j <= i
               IN  x[top] < y[top]

\* x * 2^k and the integer part of x / 2^k
BigShl(x, k) ==
  IF x = <<>> THEN x
  ELSE BigTimes([i \in 1..(k \div 15) |-> 0] \o x, 2^(k % 15))

BigShr(x, k) ==
  LET whole == SubSeq(x, (k \div 15) + 1, Len(x))
      low == 2^(k % 15)
  IN  Trim([i \in 1..Len(whole) |->
              (whole[i] \div low)
              + (IF i < Len(whole) THEN (whole[i + 1] % low) * (Base \div low)
                 ELSE 0)])

\* the binary place i of x (place 0 is the units) and the number of places
Bit(x, i) ==
  IF (i \div 15) + 1 > Len(x) THEN 0
  ELSE (x[(i \div 15) + 1] \div 2^(i % 15)) % 2

BitLen(x) ==
  IF x = <<>> THEN 0
  ELSE 15 * (Len(x) - 1)
       + (CHOOSE k \in 1..15 : 2^(k - 1) <= x[Len(x)] /\ x[Len(x)] < 2^k)

\* the integer part and the remainder of x / b for 0 < b < 2^15, dividing
\* from the most significant digit down
RECURSIVE DivDigits(_, _)
DivDigits(x, b) ==
  IF x = <<>> THEN [quot |-> <<>>, rem |-> 0]
  ELSE LET high == DivDigits(Tail(x), b)
           part == high.rem * Base + Head(x)
       IN  [quot |-> <<part \div b>> \o high.quot, rem |-> part % b]

\* the double nearest to x * 2^e (+ a little, when sticky), for x of at
\* least 53 binary places
RoundToDouble(x, e, sticky) ==
  LET dropped == BitLen(x) - 53
      keep == BigShr(x, dropped)
      half == dropped > 0 /\ Bit(x, dropped - 1) = 1
      rest == sticky \/ \E i \in 0..(dropped - 2) : Bit(x, i) = 1
      up == half /\ (rest \/ Bit(keep, 0) = 1)
      m == IF up THEN BigAdd(keep, <<1>>) ELSE keep
  IN  IF BitLen(m) = 54 THEN [m |-> BigShr(m, 1), e |-> e + dropped + 1]
      ELSE [m |-> m, e |-> e + dropped]

DZero == [m |-> <<>>, e |-> 0]

\* a / b for integers 0 <= a < 2^15, 0 < b < 2^15
DDiv(a, b) ==
  IF a = 0 THEN DZero
  ELSE LET division == DivDigits(BigShl(BigOf(a), 75), b)
       IN  RoundToDouble(Trim(division.quot), -75, division.rem # 0)

\* d * n for an integer 1 <= n < 2^15
DTimes(d, n) ==
  IF d = DZero THEN DZero ELSE RoundToDouble(BigTimes(d.m, n), d.e, FALSE)

\* x - y for x >= y
RECURSIVE SubDigits(_, _, _)
SubDigits(x, y, borrow) ==
  IF x = <<>> THEN <<>>
  ELSE LET difference == Head(x) - (IF y = <<>> THEN 0 ELSE Head(y)) - borrow
       IN  <<difference % Base>>
           \o SubDigits(Tail(x), IF y = <<>> THEN y ELSE Tail(y),
                        IF difference < 0 THEN 1 ELSE 0)

BigSub(x, y) == Trim(SubDigits(x, y, 0))

RECURSIVE BigMul(_, _)
BigMul(x, y) ==
  IF y = <<>> THEN <<>>
  ELSE LET rest == BigMul(x, Tail(y))
       IN  BigAdd(BigTimes(x, Head(y)),
                  IF rest = <<>> THEN rest ELSE <<0>> \o rest)

\* the digit q with q * y <= r < (q + 1) * y, for r < y * 2^15 and y with its
\* most significant digit at least 2^14: the quotient of the leading digits
\* is at most 2 above q
QuotientDigit(r, y) ==
  LET n == Len(y)
      lead == (IF Len(r) > n THEN r[n + 1] * Base ELSE 0)
              + (IF Len(r) >= n THEN r[n] ELSE 0)
      estimate == IF lead \div y[n] >= Base THEN Base - 1 ELSE lead \div y[n]
  IN  CHOOSE q \in {estimate - 2, estimate - 1, estimate} :
        /\ q >= 0
        /\ BigLeq(BigTimes(y, q), r)
        /\ ~BigLeq(BigTimes(y, q + 1), r)

\* one more digit of a division by such a y: high is the division of the
\* digits above it
DivisionStep(high, digit, y) ==
  IF high.rem = <<>> /\ digit = 0
  THEN [quot |-> <<0>> \o high.quot, rem |-> <<>>]
  ELSE LET part == <<digit>> \o high.rem
           q == QuotientDigit(part, y)
       IN  [quot |-> <<q>> \o high.quot, rem |-> BigSub(part, BigTimes(y, q))]

\* the integer part and the remainder of x / y for such a y, dividing from
\* the most significant digit down
RECURSIVE LongDivision(_, _)
LongDivision(x, y) ==
  IF x = <<>> THEN [quot |-> <<>>, rem |-> <<>>]
  ELSE DivisionStep(LongDivision(Tail(x), y), Head(x), y)

\* the integer part and the remainder of x / y for y > 0
BigDiv(x, y) ==
  LET shift == (15 - (BitLen(y) % 15)) % 15
      division == LongDivision(BigShl(x, shift), BigShl(y, shift))
  IN  [quot |-> Trim(division.quot), rem |-> BigShr(division.rem, shift)]

\* one step of Newton's iteration for the square root of x
NewtonStep(x, r) == BigShr(BigAdd(r, BigDiv(x, r).quot), 1)

\* the integer part of the square root of x > 0: Newton's iteration from a
\* power of two above the root comes down to it, gaining twice the places
\* with every step once it is near
RECURSIVE NewtonSqrt(_, _)
NewtonSqrt(x, r) ==
  LET next == NewtonStep(x, r)
  IN  IF BigLeq(r, next) THEN r ELSE NewtonSqrt(x, next)

BigSqrt(x) == NewtonSqrt(x, BigShl(<<1>>, (BitLen(x) + 1) \div 2))

\* the double nearest to x * 2^e for a natural number x
ToDouble(x, e, sticky) ==
  IF x = <<>> THEN DZero
  ELSE IF BitLen(x) < 53
       THEN [m |-> BigShl(x, 53 - BitLen(x)), e |-> e - (53 - BitLen(x))]
       ELSE RoundToDouble(x, e, sticky)

DOf(n) == ToDouble(BigOf(n), 0, FALSE)

\* a <= b
DLeq(a, b) ==
  \/ a = DZero
  \/ b # DZero /\ (a.e < b.e \/ (a.e = b.e /\ BigLeq(a.m, b.m)))

\* a + b
DAdd(a, b) ==
  IF a = DZero THEN b
  ELSE IF b = DZero THEN a
  ELSE LET e == IF a.e < b.e THEN a.e ELSE b.e
       IN  ToDouble(BigAdd(BigShl(a.m, a.e - e), BigShl(b.m, b.e - e)), e,
                    FALSE)

\* |a - b|
DDistance(a, b) ==
  IF a = DZero THEN b
  ELSE IF b = DZero THEN a
  ELSE LET e == IF a.e < b.e THEN a.e ELSE b.e
           x == BigShl(a.m, a.e - e)
           y == BigShl(b.m, b.e - e)
       IN  ToDouble(IF BigLeq(x, y) THEN BigSub(y, x) ELSE BigSub(x, y), e,
                    FALSE)

\* a * b
DMul(a, b) ==
  IF a = DZero \/ b = DZero THEN DZero
  ELSE ToDouble(BigMul(a.m, b.m), a.e + b.e, FALSE)

\* a / b for b > 0
DQuot(a, b) ==
  IF a = DZero THEN DZero
  ELSE LET division == BigDiv(BigShl(a.m, 55), b.m)
       IN  RoundToDouble(division.quot, a.e - b.e - 55, division.rem # <<>>)

RECURSIVE BigToInt(_)
BigToInt(x) == IF x = <<>> THEN 0 ELSE Head(x) + Base * BigToInt(Tail(x))

\* Math.round(a): the integer nearest to a, halves upwards
MathRound(a) ==
  IF a = DZero THEN 0
  ELSE IF a.e >= 0 THEN BigToInt(BigShl(a.m, a.e))
       ELSE BigToInt(BigShr(BigAdd(a.m, BigShl(<<1>>, -a.e - 1)), -a.e))

\* Math.sqrt(a)
DSqrt(a) ==
  IF a = DZero THEN DZero
  ELSE LET k == IF (a.e - 54) % 2 = 0 THEN 54 ELSE 55
           x == BigShl(a.m, k)
           root == BigSqrt(x)
       IN  RoundToDouble(root, (a.e - k) \div 2, BigMul(root, root) # x)

-----------------------------------------------------------------------------
(* The calendar behind `new Date(year, month, day)`                        *)

IsLeap(y) == (y % 4 = 0 /\ y % 100 # 0) \/ y % 400 = 0
YearLen(y) == IF IsLeap(y) THEN 366 ELSE 365
MonthLen(y, m) ==
  IF m = 1 THEN (IF IsLeap(y) THEN 29 ELSE 28)
  ELSE IF m \in {3, 5, 8, 10} THEN 30 ELSE 31

RECURSIVE DaysBeforeYear(_)
DaysBeforeYear(y) ==
  IF y <= 2023 THEN 0 ELSE DaysBeforeYear(y - 1) + YearLen(y - 1)

RECURSIVE DaysBeforeMonth(_, _)
DaysBeforeMonth(y, m) ==
  IF m = 0 THEN 0 ELSE DaysBeforeMonth(y, m - 1) + MonthLen(y, m - 1)

\* a Date constructor that keeps the year when the month runs over
NormYearKept(y, m) == y

\* month overflow of the Date constructor: month -1 is December of y - 1
NormYear(y, m) == y + (m \div 12)
NormMonth(m) == m % 12

\* day number of new Date(y, m, d); d = 0 is the last day of month m - 1
DayNumber(y, m, d) ==
  DaysBeforeYear(NormYear(y, m)) + DaysBeforeMonth(NormYear(y, m), NormMonth(m))
    + d - 1

Today == DayNumber(now.y, now.m, now.d)
GetDay(n) == n % 7            \* Date.getDay(): 0 is Sunday

YearOf(n) ==
  CHOOSE y \in 2023..2027 : DaysBeforeYear(y) <= n /\ n < DaysBeforeYear(y + 1)
FirstSundayFrom(n) == n + ((7 - GetDay(n)) % 7)

\* daylight saving time of the zone on day n, before (late = 0) or after
\* (late = 1) the small hours in which the clocks are changed: rule "us" from
\* the second Sunday of March to the first Sunday of November, rule "au" from
\* the first Sunday of October to the first Sunday of April
InDst(n, late) ==
  LET y == YearOf(n)
  IN  CASE tz.dst = "none" -> FALSE
        [] tz.dst = "us" ->
             /\ FirstSundayFrom(DayNumber(y, 2, 8)) + 1 <= n + late
             /\ n + late <= FirstSundayFrom(DayNumber(y, 10, 1))
        [] tz.dst = "au" ->
             \/ FirstSundayFrom(DayNumber(y, 9, 1)) + 1 <= n + late
             \/ n + late <= FirstSundayFrom(DayNumber(y, 3, 1))

\* local time minus UTC, in half hours
UtcOffset(n, late) == 2 * tz.offset + (IF InDst(n, late) THEN 2 ELSE 0)

\* instants, in half hours
StartOfDay(n) == n * 48 - UtcOffset(n, 0)      \* 00:00:00.000 local time
EndOfDay(n) == n * 48 + 47 - UtcOffset(n, 1)   \* setHours(23, 59, 59, 999)

\* what stands for a date string that does not parse, and for the getTime()
\* of the Invalid Date it gives
NaN == -1
ParseDate(d) == IF d = NaN THEN NaN ELSE d * 48   \* new Date(date).getTime()

-----------------------------------------------------------------------------
(* AnalyticsEngine                                                         *)

\* the comparator of the constructor's sort: b.getTime() - a.getTime()
\* (a difference with NaN is NaN, which the sort treats as +0)
CompareByDate(a, b) ==
  IF ParseDate(a.date) = NaN \/ ParseDate(b.date) = NaN THEN 0
  ELSE ParseDate(b.date) - ParseDate(a.date)

\* an insertion that puts x in front of the elements of its own date
RECURSIVE InsertByDateBeforeEqual(_, _)
InsertByDateBeforeEqual(s, x) ==
  IF s = <<>> THEN <<x>>
  ELSE IF CompareByDate(Head(s), x) < 0
       THEN <<Head(s)>> \o InsertByDateBeforeEqual(Tail(s), x)
       ELSE <<x>> \o s

\* Array.prototype.sort is stable: x goes behind every element that the
\* comparator does not put after it
RECURSIVE InsertByDate(_, _)
InsertByDate(s, x) ==
  IF s = <<>> THEN <<x>>
  ELSE IF CompareByDate(Head(s), x) <= 0
       THEN <<Head(s)>> \o InsertByDate(Tail(s), x)
       ELSE <<x>> \o s

RECURSIVE SortByDate(_)
SortByDate(s) ==
  IF s = <<>> THEN <<>>
  ELSE InsertByDate(SortByDate(SubSeq(s, 1, Len(s) - 1)), s[Len(s)])

\* the comparator is consistent on s when the elements it calls equal form
\* classes; the difference of two numbers has the other properties
IsConsistentComparator(s) ==
  \A i, j, k \in DOMAIN s :
    CompareByDate(s[i], s[j]) = 0 /\ CompareByDate(s[j], s[k]) = 0
      => CompareByDate(s[i], s[k]) = 0

Orderings(s) == {[i \in DOMAIN s |-> s[p[i]]] : p \in Permutations(DOMAIN s)}

\* what transactions.sort(comparator) may leave in the array: the stable
\* sort, or with a comparator that is not consistent an order that the
\* implementation defines
SortOutcomes(s) ==
  IF IsConsistentComparator(s) THEN {SortByDate(s)} ELSE Orderings(s)

\* a filter that rejects what lies outside the period instead of
\* accepting what lies inside it: an Invalid Date is not outside
GetTransactionsInPeriodByRejection(txs, startDate, endDate) ==
  SelectSeq(txs, LAMBDA t : \/ ParseDate(t.date) = NaN
                            \/ /\ ParseDate(t.date) >= startDate
                               /\ ParseDate(t.date) <= endDate)

\* getTransactionsInPeriod(startDate, endDate) on the snapshot txs
GetTransactionsInPeriod(txs, startDate, endDate) ==
  SelectSeq(txs, LAMBDA t : /\ ParseDate(t.date) # NaN
                            /\ ParseDate(t.date) >= startDate
                            /\ ParseDate(t.date) <= endDate)

\* a classification by the sign of the amount instead of the type field
OfTypeBySign(txs, ty) ==
  SelectSeq(txs, LAMBDA t : IF ty = "income" THEN t.amount > 0
                            ELSE t.amount <= 0)

OfType(txs, ty) == SelectSeq(txs, LAMBDA t : t.type = ty)

\* the sum without Math.abs
RECURSIVE SumSigned(_)
SumSigned(txs) ==
  IF txs = <<>> THEN 0
  ELSE SumSigned(SubSeq(txs, 1, Len(txs) - 1)) + txs[Len(txs)].amount

\* .reduce((sum, t) => sum + Math.abs(t.amount), 0)
RECURSIVE SumAbs(_)
SumAbs(txs) ==
  IF txs = <<>> THEN 0
  ELSE SumAbs(SubSeq(txs, 1, Len(txs) - 1)) + Abs(txs[Len(txs)].amount)

\* categoryMap.set(...): a Map keeps its keys in order of first insertion
MapSet(map, t) ==
  IF \E i \in 1..Len(map) : map[i].category = t.category
  THEN [i \in 1..Len(map) |->
          IF map[i].category = t.category
          THEN [category |-> t.category,
                amount |-> map[i].amount + Abs(t.amount),
                count |-> map[i].count + 1]
          ELSE map[i]]
  ELSE Append(map, [category |-> t.category, amount |-> Abs(t.amount),
                    count |-> 1])

RECURSIVE CategoryMap(_)
CategoryMap(txs) ==
  IF txs = <<>> THEN <<>>
  ELSE MapSet(CategoryMap(SubSeq(txs, 1, Len(txs) - 1)), txs[Len(txs)])

\* the comparator turned round: a.amount - b.amount
RECURSIVE InsertByAmountAscending(_, _)
InsertByAmountAscending(s, x) ==
  IF s = <<>> THEN <<x>>
  ELSE IF x.amount - Head(s).amount >= 0
       THEN <<Head(s)>> \o InsertByAmountAscending(Tail(s), x)
       ELSE <<x>> \o s

\* .sort((a, b) => b.amount - a.amount), stable
RECURSIVE InsertByAmount(_, _)
InsertByAmount(s, x) ==
  IF s = <<>> THEN <<x>>
  ELSE IF Head(s).amount - x.amount >= 0
       THEN <<Head(s)>> \o InsertByAmount(Tail(s), x)
       ELSE <<x>> \o s

RECURSIVE SortByAmount(_)
SortByAmount(s) ==
  IF s = <<>> THEN <<>>
  ELSE InsertByAmount(SortByAmount(SubSeq(s, 1, Len(s) - 1)), s[Len(s)])

Slice(s, n) == SubSeq(s, 1, IF Len(s) < n THEN Len(s) ELSE n)

Percentage(amount, expenses) ==
  IF expenses > 0 THEN RMul(Rat(amount, expenses), FromInt(100)) ELSE RZero

\* a ranking that cuts the list before it sorts it
TopCategoriesOfFirst(txs, expenses) ==
  LET entries == CategoryMap(OfType(txs, "expense"))
      mapped == [i \in 1..Len(entries) |->
                   [category |-> entries[i].category,
                    amount |-> entries[i].amount,
                    count |-> entries[i].count,
                    percentage |-> Percentage(entries[i].amount, expenses)]]
  IN  SortByAmount(Slice(mapped, TopN))

TopCategories(txs, expenses) ==
  LET entries == CategoryMap(OfType(txs, "expense"))
      mapped == [i \in 1..Len(entries) |->
                   [category |-> entries[i].category,
                    amount |-> entries[i].amount,
                    count |-> entries[i].count,
                    percentage |-> Percentage(entries[i].amount, expenses)]]
  IN  Slice(SortByAmount(mapped), TopN)

\* the quotient without the `income > 0` guard
SavingsRateUnguarded(income, netAmount) ==
  RMul(Rat(netAmount, income), FromInt(100))

SavingsRate(income, netAmount) ==
  IF income > 0 THEN RMul(Rat(netAmount, income), FromInt(100)) ELSE RZero

\* expenses / days, unguarded
AverageDaily(expenses, days) == Rat(expenses, days)

CalculatePeriodAnalytics(txs, periodName, days) ==
  LET income == SumAbs(OfType(txs, "income"))
      expenses == SumAbs(OfType(txs, "expense"))
      netAmount == income - expenses
  IN  [period |-> periodName,
       totalIncome |-> income,
       totalExpenses |-> expenses,
       netAmount |-> netAmount,
       transactionCount |-> Len(txs),
       topCategories |-> TopCategories(txs, expenses),
       averageDaily |-> AverageDaily(expenses, days),
       savingsRate |-> SavingsRate(income, netAmount)]

\* data.amount / expenses, without the `* 100`
PercentageDoubleAsFraction(amount, expenses) ==
  IF expenses > 0 THEN DDiv(amount, expenses) ELSE DZero

\* percentage as the double the expression yields, where Percentage above
\* is the exact quotient
PercentageDouble(amount, expenses) ==
  IF expenses > 0 THEN DTimes(DDiv(amount, expenses), 100) ELSE DZero

TopCategoriesDouble(txs, expenses) ==
  LET top == TopCategories(txs, expenses)
  IN  [i \in 1..Len(top) |->
         [top[i] EXCEPT !.percentage = PercentageDouble(top[i].amount, expenses)]]

CalculatePeriodAnalyticsDouble(txs, periodName, days) ==
  [CalculatePeriodAnalytics(txs, periodName, days) EXCEPT
     !.topCategories =
        TopCategoriesDouble(txs, SumAbs(OfType(txs, "expense")))]

\* Math.ceil(a / b) for b > 0
CeilDiv(a, b) == -((-a) \div b)

\* new Date(y, m + 1, 0).getDate(): the number of days of month m
LastDate(y, m) == MonthLen(NormYear(y, m), NormMonth(m))

\* now.getDate() - now.getDay(), at 00:00
StartOfWeek == Today - GetDay(Today)

HalfStart == (now.m \div 6) * 6

\* a growth helper that divides by the size of the previous value
CalculateGrowthByMagnitude(current, previous) ==
  IF previous = 0 THEN (IF current > 0 THEN FromInt(100) ELSE RZero)
  ELSE RMul(Rat(current - previous, Abs(previous)), FromInt(100))

\* a growth helper that reports 100 whenever the previous value is 0
CalculateGrowthFromZero(current, previous) ==
  IF previous = 0 THEN FromInt(100)
  ELSE RMul(Rat(current - previous, previous), FromInt(100))

\* (current, previous) => previous === 0 ? (current > 0 ? 100 : 0) : ...
CalculateGrowth(current, previous) ==
  IF previous = 0 THEN (IF current > 0 THEN FromInt(100) ELSE RZero)
  ELSE RMul(Rat(current - previous, previous), FromInt(100))

Comparison(current, previous) ==
  [current |-> current,
   previous |-> previous,
   growth |-> [income |-> CalculateGrowth(current.totalIncome,
                                          previous.totalIncome),
               expenses |-> CalculateGrowth(current.totalExpenses,
                                            previous.totalExpenses),
               savings |-> CalculateGrowth(current.netAmount,
                                           previous.netAmount)]]

GetWeeklyAnalytics(txs) ==
  CalculatePeriodAnalytics(
    GetTransactionsInPeriod(txs, StartOfDay(StartOfWeek),
                            EndOfDay(StartOfWeek + 6)),
    "This Week", 7)

GetMonthlyAnalytics(txs) ==
  CalculatePeriodAnalytics(
    GetTransactionsInPeriod(txs, StartOfDay(DayNumber(now.y, now.m, 1)),
                            EndOfDay(DayNumber(now.y, now.m + 1, 0))),
    "This Month", LastDate(now.y, now.m))

GetMonthlyAnalyticsDouble(txs) ==
  CalculatePeriodAnalyticsDouble(
    GetTransactionsInPeriod(txs, StartOfDay(DayNumber(now.y, now.m, 1)),
                            EndOfDay(DayNumber(now.y, now.m + 1, 0))),
    "This Month", LastDate(now.y, now.m))

\* a half year counted in calendar days instead of elapsed time
GetHalfYearlyAnalyticsByCalendar(txs) ==
  CalculatePeriodAnalytics(
    GetTransactionsInPeriod(txs, StartOfDay(DayNumber(now.y, HalfStart, 1)),
                            EndOfDay(DayNumber(now.y, HalfStart + 6, 0))),
    "This Half Year",
    DayNumber(now.y, HalfStart + 6, 0) - DayNumber(now.y, HalfStart, 1) + 1)

GetHalfYearlyAnalytics(txs) ==
  LET startOfHalfYear == StartOfDay(DayNumber(now.y, HalfStart, 1))
      endOfHalfYear == EndOfDay(DayNumber(now.y, HalfStart + 6, 0))
  IN  CalculatePeriodAnalytics(
        GetTransactionsInPeriod(txs, startOfHalfYear, endOfHalfYear),
        "This Half Year", CeilDiv(endOfHalfYear - startOfHalfYear, 48))

GetAnnualAnalytics(txs) ==
  CalculatePeriodAnalytics(
    GetTransactionsInPeriod(txs, StartOfDay(DayNumber(now.y, 0, 1)),
                            EndOfDay(DayNumber(now.y, 11, 31))),
    "This Year", IF now.y % 4 = 0 THEN 366 ELSE 365)

GetMonthlyComparison(txs) ==
  Comparison(
    CalculatePeriodAnalytics(
      GetTransactionsInPeriod(txs, StartOfDay(DayNumber(now.y, now.m, 1)),
                              EndOfDay(DayNumber(now.y, now.m + 1, 0))),
      "Current Month", LastDate(now.y, now.m)),
    CalculatePeriodAnalytics(
      GetTransactionsInPeriod(txs, StartOfDay(DayNumber(now.y, now.m - 1, 1)),
                              EndOfDay(DayNumber(now.y, now.m, 0))),
      "Previous Month", LastDate(now.y, now.m - 1)))

GetWeeklyComparison(txs) ==
  Comparison(
    CalculatePeriodAnalytics(
      GetTransactionsInPeriod(txs, StartOfDay(StartOfWeek),
                              EndOfDay(StartOfWeek + 6)),
      "Current Week", 7),
    CalculatePeriodAnalytics(
      GetTransactionsInPeriod(txs, StartOfDay(StartOfWeek - 7),
                              EndOfDay(StartOfWeek - 7 + 6)),
      "Previous Week", 7))

GetHalfYearlyComparison(txs) ==
  LET prevHalfStart == HalfStart - 6
      prevYear == IF prevHalfStart < 0 THEN now.y - 1 ELSE now.y
      prevMonth == IF prevHalfStart < 0 THEN prevHalfStart + 12
                   ELSE prevHalfStart
      startOfCurrentHalf == StartOfDay(DayNumber(now.y, HalfStart, 1))
      endOfCurrentHalf == EndOfDay(DayNumber(now.y, HalfStart + 6, 0))
      startOfPreviousHalf == StartOfDay(DayNumber(prevYear, prevMonth, 1))
      endOfPreviousHalf == EndOfDay(DayNumber(prevYear, prevMonth + 6, 0))
  IN  Comparison(
        CalculatePeriodAnalytics(
          GetTransactionsInPeriod(txs, startOfCurrentHalf, endOfCurrentHalf),
          "Current Half Year",
          CeilDiv(endOfCurrentHalf - startOfCurrentHalf, 48)),
        CalculatePeriodAnalytics(
          GetTransactionsInPeriod(txs, startOfPreviousHalf, endOfPreviousHalf),
          "Previous Half Year",
          CeilDiv(endOfPreviousHalf - startOfPreviousHalf, 48)))

GetYearlyComparison(txs) ==
  Comparison(
    CalculatePeriodAnalytics(
      GetTransactionsInPeriod(txs, StartOfDay(DayNumber(now.y, 0, 1)),
                              EndOfDay(DayNumber(now.y, 11, 31))),
      "Current Year", IF now.y % 4 = 0 THEN 366 ELSE 365),
    CalculatePeriodAnalytics(
      GetTransactionsInPeriod(txs, StartOfDay(DayNumber(now.y - 1, 0, 1)),
                              EndOfDay(DayNumber(now.y - 1, 11, 31))),
      "Previous Year", IF (now.y - 1) % 4 = 0 THEN 366 ELSE 365))

\* one iteration of the loop of getSpendingTrends: the month i months ago
TrendPoint(txs, i) ==
  LET my == NormYear(now.y, now.m - i)
      mm == NormMonth(now.m - i)
      monthTransactions ==
        GetTransactionsInPeriod(txs, StartOfDay(DayNumber(my, mm, 1)),
                                EndOfDay(DayNumber(my, mm + 1, 0)))
      income == SumAbs(OfType(monthTransactions, "income"))
      expenses == SumAbs(OfType(monthTransactions, "expense"))
  IN  [month |-> <<mm, my % 100>>,
       income |-> income,
       expenses |-> expenses,
       savings |-> income - expenses]

\* the loop run from the clock's month backwards
GetSpendingTrendsNewestFirst(txs) ==
  [k \in 1..TrendMonths |-> TrendPoint(txs, k - 1)]

GetSpendingTrends(txs) ==
  [k \in 1..TrendMonths |-> TrendPoint(txs, TrendMonths - k)]

\* an Array in place of the Set: every label as often as it is used
Repeated(s) == s

\* new Set([...]) and Array.from: the distinct labels in order of first use
RECURSIVE Distinct(_)
Distinct(s) ==
  IF s = <<>> THEN <<>>
  ELSE LET front == Distinct(SubSeq(s, 1, Len(s) - 1))
       IN  IF \E i \in 1..Len(front) : front[i] = s[Len(s)] THEN front
           ELSE Append(front, s[Len(s)])

\* .sort((a, b) => b.currentMonth - a.currentMonth), stable
RECURSIVE InsertByCurrentMonth(_, _)
InsertByCurrentMonth(s, x) ==
  IF s = <<>> THEN <<x>>
  ELSE IF Head(s).currentMonth - x.currentMonth >= 0
       THEN <<Head(s)>> \o InsertByCurrentMonth(Tail(s), x)
       ELSE <<x>> \o s

RECURSIVE SortByCurrentMonth(_)
SortByCurrentMonth(s) ==
  IF s = <<>> THEN <<>>
  ELSE InsertByCurrentMonth(SortByCurrentMonth(SubSeq(s, 1, Len(s) - 1)),
                            s[Len(s)])

\* a change that is 0 whenever the previous amount is 0
CategoryChangeOfNew(currentAmount, previousAmount) ==
  IF previousAmount > 0
  THEN RMul(Rat(currentAmount - previousAmount, previousAmount), FromInt(100))
  ELSE RZero

CategoryChange(currentAmount, previousAmount) ==
  IF previousAmount > 0
  THEN RMul(Rat(currentAmount - previousAmount, previousAmount), FromInt(100))
  ELSE IF currentAmount > 0 THEN FromInt(100) ELSE RZero

GetCategoryComparison(txs) ==
  LET currentTransactions ==
        OfType(GetTransactionsInPeriod(txs,
                 StartOfDay(DayNumber(now.y, now.m, 1)),
                 EndOfDay(DayNumber(now.y, now.m + 1, 0))), "expense")
      previousTransactions ==
        OfType(GetTransactionsInPeriod(txs,
                 StartOfDay(DayNumber(now.y, now.m - 1, 1)),
                 EndOfDay(DayNumber(now.y, now.m, 0))), "expense")
      allCategories ==
        Distinct([i \in 1..Len(currentTransactions) |->
                    currentTransactions[i].category]
                 \o [i \in 1..Len(previousTransactions) |->
                       previousTransactions[i].category])
      Of(ts, c) == SumAbs(SelectSeq(ts, LAMBDA t : t.category = c))
  IN  SortByCurrentMonth(
        [i \in 1..Len(allCategories) |->
           [category |-> allCategories[i],
            currentMonth |-> Of(currentTransactions, allCategories[i]),
            previousMonth |-> Of(previousTransactions, allCategories[i]),
            change |-> CategoryChange(
                         Of(currentTransactions, allCategories[i]),
                         Of(previousTransactions, allCategories[i]))]])

\* .reduce((sum, val) => sum + val, 0)
RECURSIVE SumSeq(_)
SumSeq(values) ==
  IF values = <<>> THEN 0
  ELSE SumSeq(SubSeq(values, 1, Len(values) - 1)) + values[Len(values)]

\* .reduce((sum, val) => sum + Math.pow(val - mean, 2), 0)
RECURSIVE SumSquares(_, _)
SumSquares(values, mean) ==
  IF values = <<>> THEN RZero
  ELSE LET d == RSub(FromInt(values[Len(values)]), mean)
       IN  RAdd(SumSquares(SubSeq(values, 1, Len(values) - 1), mean),
                RMul(d, d))

CalculateVariation(values) ==
  IF Len(values) = 0 THEN NInt(0)
  ELSE LET mean == Rat(SumSeq(values), Len(values))
           variance == RDiv(SumSquares(values, mean), FromInt(Len(values)))
           standardDeviation == Sqrt(variance)
       IN  IF mean[1] > 0
           THEN NScale(standardDeviation, RDiv(FromInt(100), mean))
           ELSE NInt(0)

\* Math.max(...categories.map(c => c.percentage))
RECURSIVE MaxPercentage(_)
MaxPercentage(categories) ==
  IF Len(categories) = 1 THEN categories[1].percentage
  ELSE RMax(MaxPercentage(SubSeq(categories, 1, Len(categories) - 1)),
            categories[Len(categories)].percentage)

\* without the `categories.length === 0` case Math.max() is -Infinity
CalculateCategoryBalanceNoEmptyCase(categories) ==
  IF Len(categories) = 0 THEN 90
  ELSE LET maxPercentage == MaxPercentage(categories)
       IN  IF RLess(FromInt(50), maxPercentage) THEN 30
           ELSE IF RLess(FromInt(40), maxPercentage) THEN 50
           ELSE IF RLess(FromInt(30), maxPercentage) THEN 70
           ELSE 90

\* the boundaries read as >= instead of >
CalculateCategoryBalanceInclusive(categories) ==
  IF Len(categories) = 0 THEN 100
  ELSE LET maxPercentage == MaxPercentage(categories)
       IN  IF RLeq(FromInt(50), maxPercentage) THEN 30
           ELSE IF RLeq(FromInt(40), maxPercentage) THEN 50
           ELSE IF RLeq(FromInt(30), maxPercentage) THEN 70
           ELSE 90

CalculateCategoryBalance(categories) ==
  IF Len(categories) = 0 THEN 100
  ELSE LET maxPercentage == MaxPercentage(categories)
       IN  IF RLess(FromInt(50), maxPercentage) THEN 30
           ELSE IF RLess(FromInt(40), maxPercentage) THEN 50
           ELSE IF RLess(FromInt(30), maxPercentage) THEN 70
           ELSE 90

Impact(score, positive, neutral) ==
  IF NGeq(score, NInt(positive)) THEN "positive"
  ELSE IF NGeq(score, NInt(neutral)) THEN "neutral" ELSE "negative"

SavingsScore(savingsRate) ==
  NMin(FromRat(RMul(savingsRate, FromInt(2))), NInt(100))

ConsistencyScore(expenseVariation) ==
  NMax(NInt(0), NSub(NInt(100), expenseVariation))

\* 50 + growth without the clamp to 0..100
IncomeGrowthScoreUnclamped(growth) == NAdd(NInt(50), FromRat(growth))

IncomeGrowthScore(growth) ==
  NMin(NMax(NAdd(NInt(50), FromRat(growth)), NInt(0)), NInt(100))

\* getFinancialHealthScore from the three results it asks the engine for
HealthScoreOf(monthlyAnalytics, trends, comparison) ==
  LET savingsScore == SavingsScore(monthlyAnalytics.savingsRate)
      expenseVariation ==
        CalculateVariation([i \in 1..Len(trends) |-> trends[i].expenses])
      consistencyScore == ConsistencyScore(expenseVariation)
      incomeGrowthScore == IncomeGrowthScore(comparison.growth.income)
      categoryBalance ==
        NInt(CalculateCategoryBalance(monthlyAnalytics.topCategories))
      totalScore ==
        NAdd(NAdd(NAdd(NScale(savingsScore, <<3, 10>>),
                       NScale(consistencyScore, <<1, 4>>)),
                  NScale(incomeGrowthScore, <<1, 5>>)),
             NScale(categoryBalance, <<1, 4>>))
  IN  [score |-> Round(totalScore),
       factors |->
         << [name |-> "Savings Rate", score |-> savingsScore,
             impact |-> Impact(savingsScore, 60, 30)],
            [name |-> "Spending Consistency", score |-> consistencyScore,
             impact |-> Impact(consistencyScore, 70, 40)],
            [name |-> "Income Growth", score |-> incomeGrowthScore,
             impact |-> IF RLess(FromInt(5), comparison.growth.income)
                        THEN "positive"
                        ELSE IF RLess(comparison.growth.income, FromInt(-5))
                             THEN "negative" ELSE "neutral"],
            [name |-> "Expense Balance", score |-> categoryBalance,
             impact |-> Impact(categoryBalance, 70, 40)] >>]

GetFinancialHealthScore(txs) ==
  HealthScoreOf(GetMonthlyAnalytics(txs), GetSpendingTrends(txs),
                GetMonthlyComparison(txs))

\* The variation of the trend in double precision.  Here a transaction's
\* amount field counts tenths: the program's number is the double nearest
\* to amount / 10, as for an amount entered with one decimal place.
Tenths == 10

AmountDouble(t) == DDiv(Abs(t.amount), Tenths)

\* .reduce((sum, t) => sum + Math.abs(t.amount), 0)
RECURSIVE SumAbsDouble(_)
SumAbsDouble(txs) ==
  IF txs = <<>> THEN DZero
  ELSE DAdd(SumAbsDouble(SubSeq(txs, 1, Len(txs) - 1)),
            AmountDouble(txs[Len(txs)]))

\* expenses of the trend point of the month i months ago
TrendExpensesDouble(txs, i) ==
  LET my == NormYear(now.y, now.m - i)
      mm == NormMonth(now.m - i)
      monthTransactions ==
        GetTransactionsInPeriod(txs, StartOfDay(DayNumber(my, mm, 1)),
                                EndOfDay(DayNumber(my, mm + 1, 0)))
  IN  SumAbsDouble(OfType(monthTransactions, "expense"))

\* trends.map(t => t.expenses)
GetTrendExpensesDouble(txs) ==
  [k \in 1..TrendMonths |-> TrendExpensesDouble(txs, TrendMonths - k)]

\* .reduce((sum, val) => sum + val, 0)
RECURSIVE SumDouble(_)
SumDouble(values) ==
  IF values = <<>> THEN DZero
  ELSE DAdd(SumDouble(SubSeq(values, 1, Len(values) - 1)),
            values[Len(values)])

\* .reduce((sum, val) => sum + Math.pow(val - mean, 2), 0)
RECURSIVE SumSquaresDouble(_, _)
SumSquaresDouble(values, mean) ==
  IF values = <<>> THEN DZero
  ELSE LET d == DDistance(values[Len(values)], mean)
       IN  DAdd(SumSquaresDouble(SubSeq(values, 1, Len(values) - 1), mean),
                DMul(d, d))

\* the variation with the sample variance, over length - 1
CalculateVariationDoubleOfSample(values) ==
  IF Len(values) = 0 THEN DZero
  ELSE LET mean == DQuot(SumDouble(values), DOf(Len(values)))
           variance ==
             DQuot(SumSquaresDouble(values, mean), DOf(Len(values) - 1))
           standardDeviation == DSqrt(variance)
       IN  IF mean # DZero
           THEN DMul(DQuot(standardDeviation, mean), DOf(100))
           ELSE DZero

CalculateVariationDouble(values) ==
  IF Len(values) = 0 THEN DZero
  ELSE LET mean == DQuot(SumDouble(values), DOf(Len(values)))
           variance == DQuot(SumSquaresDouble(values, mean), DOf(Len(values)))
           standardDeviation == DSqrt(variance)
       IN  IF mean # DZero
           THEN DMul(DQuot(standardDeviation, mean), DOf(100))
           ELSE DZero

\* Math.max(0, 100 - expenseVariation)
ConsistencyScoreDouble(expenseVariation) ==
  IF DLeq(DOf(100), expenseVariation) THEN DZero
  ELSE DDistance(DOf(100), expenseVariation)

ImpactDouble(score, positive, neutral) ==
  IF DLeq(DOf(positive), score) THEN "positive"
  ELSE IF DLeq(DOf(neutral), score) THEN "neutral" ELSE "negative"

\* getFinancialHealthScore with the Spending Consistency factor in double
\* precision; the other factors and the score are those of the exact model,
\* which do not change with the unit of the amounts
GetFinancialHealthScoreDouble(txs) ==
  LET expenseVariation == CalculateVariationDouble(GetTrendExpensesDouble(txs))
      consistencyScore == ConsistencyScoreDouble(expenseVariation)
  IN  [GetFinancialHealthScore(txs) EXCEPT
         !.factors[2].score = consistencyScore,
         !.factors[2].impact = ImpactDouble(consistencyScore, 70, 40)]

-----------------------------------------------------------------------------
(* Inputs                                                                  *)

Clocks ==
  {[y |-> 2024, m |-> 0, d |-> 15],     \* Monday; the previous month and
                                        \* half year lie in 2023
   [y |-> 2024, m |-> 2, d |-> 1],      \* Friday; the week began in February
   [y |-> 2025, m |-> 7, d |-> 31]}     \* Sunday; second half of the year
Utc == [offset |-> 0, dst |-> "none"]
TimeZones == {[offset |-> -5, dst |-> "none"], Utc, [offset |-> 9, dst |-> "none"]}
Amounts == {-2, 3}

\* the dates of the transactions, relative to the clock c: today and the last
\* day of the previous month
DatesFor(c) == {DayNumber(c.y, c.m, c.d), DayNumber(c.y, c.m, 0)}

TxChoices(c) ==
  [amount : Amounts, category : {"Salary"}, date : DatesFor(c),
   type : {"income"}]
  \cup [amount : Amounts, category : {"Food"}, date : DatesFor(c),
        type : {"expense"}]

-----------------------------------------------------------------------------
(* Currency conversion; an amount of k tenths is the double k / 10         *)

Currencies == {"INR", "USD", "EUR", "GBP"}

Only(S) == CHOOSE x \in S : TRUE

\* currencyData[currency].rate
Rate(currency) ==
  CASE currency = "INR" -> DOf(1)
    [] currency = "USD" -> DQuot(DOf(12), DOf(1000))
    [] currency = "EUR" -> DQuot(DOf(11), DOf(1000))
    [] currency = "GBP" -> DQuot(DOf(95), DOf(10000))

\* convertAmount(amount, fromCurrency, toCurrency), in tenths: the result
\* of Math.round(converted * 10) / 10 is again the double of so many tenths
ConvertAmount(tenths, fromCurrency, toCurrency) ==
  IF fromCurrency = toCurrency THEN tenths
  ELSE Only({MathRound(DMul(converted, DOf(Tenths))) :
               converted \in
                 {DMul(inINR, Rate(toCurrency)) :
                    inINR \in
                      {DQuot(amount, Rate(fromCurrency)) :
                         amount \in {DQuot(DOf(tenths), DOf(Tenths))}}}})

\* no getFinancialHealthScore() is running
Idle == [pc |-> "idle"]

\* the state AppSettingsProvider and App start with, amounts in tenths
InitialSettings ==
  [currency |-> "INR", lastCurrency |-> "INR",
   budgetGoals |-> <<150000, 50000, 100000, 30000>>,
   savingsTarget |-> 150000,
   goalTargets |-> <<[targetAmount |-> 1000000, currentAmount |-> 350000],
                     [targetAmount |-> 500000, currentAmount |-> 120000]>>,
   userSalary |-> 0]

InitApp ==
  /\ call = Idle
  /\ millis = 0
  /\ store = <<>>
  /\ updates = <<>>
  /\ promises = <<>>
  /\ settings = InitialSettings
  /\ history = <<>>

NoResult == [query |-> "none", value |-> <<>>]

WithIds(f) ==
  [i \in DOMAIN f |->
     [id |-> i, amount |-> f[i].amount, category |-> f[i].category,
      date |-> f[i].date, type |-> f[i].type]]

Init ==
  /\ now \in Clocks
  /\ tz \in TimeZones
  /\ \E n \in 0..MaxTx : \E f \in [1..n -> TxChoices(now)] : list = WithIds(f)
  /\ transactions = <<>>
  /\ constructed = FALSE
  /\ result = NoResult
  /\ InitApp

-----------------------------------------------------------------------------
(* The category specification: the summary of one month of expenses in up  *)
(* to MaxCatTx + 1 transactions over as many categories as transactions    *)

CategoryNames ==
  <<"Food", "Rent", "Travel", "Bills", "Health", "Fun", "Gifts", "Pets">>
TopAmounts == {1, -2}
TopClock == [y |-> 2024, m |-> 0, d |-> 15]

RECURSIVE MaxLabel(_)
MaxLabel(s) ==
  IF s = <<>> THEN 0
  ELSE LET m == MaxLabel(SubSeq(s, 1, Len(s) - 1))
       IN  IF s[Len(s)].label > m THEN s[Len(s)].label ELSE m

\* the expense lists of length n, up to renaming of the categories: the
\* category of a transaction is one already used (amount 1) or the next
\* unused one (any amount)
RECURSIVE Shapes(_)
Shapes(n) ==
  IF n = 0 THEN {<<>>}
  ELSE UNION {{Append(s, [label |-> c, amount |-> 1]) : c \in 1..MaxLabel(s)}
              \cup {Append(s, [label |-> MaxLabel(s) + 1, amount |-> a]) :
                      a \in TopAmounts} :
              s \in Shapes(n - 1)}

ExpenseList(shape) ==
  [i \in 1..Len(shape) |->
     [amount |-> shape[i].amount, category |-> CategoryNames[shape[i].label],
      date |-> DayNumber(TopClock.y, TopClock.m, TopClock.d),
      type |-> "expense"]]

\* what else the month may hold in front of the expenses: nothing, an income
\* under a category that expenses use too, an income under a category of its
\* own, an expense of last month, an expense of amount 0
Prefixes ==
  {<<>>,
   <<[amount |-> 3, category |-> "Food", type |-> "income",
      date |-> DayNumber(TopClock.y, TopClock.m, TopClock.d)]>>,
   <<[amount |-> 3, category |-> "Salary", type |-> "income",
      date |-> DayNumber(TopClock.y, TopClock.m, 1)]>>,
   <<[amount |-> 3, category |-> "Old", type |-> "expense",
      date |-> DayNumber(TopClock.y, TopClock.m, 0)]>>,
   <<[amount |-> 0, category |-> "Misc", type |-> "expense",
      date |-> DayNumber(TopClock.y, TopClock.m, TopClock.d)]>>}

InitTop ==
  /\ now = TopClock
  /\ tz = Utc
  /\ \E n \in 0..MaxCatTx : \E shape \in Shapes(n) : \E prefix \in Prefixes :
       list = WithIds(prefix \o ExpenseList(shape))
  /\ transactions = <<>>
  /\ constructed = FALSE
  /\ result = NoResult
  /\ InitApp

-----------------------------------------------------------------------------
(* The rounding specification: one month of up to MaxCatTx expenses, each  *)
(* under a category of its own, with the percentages in double precision   *)

DoubleAmounts == {0, 1, 5}

InitDouble ==
  /\ now = TopClock
  /\ tz = Utc
  /\ \E n \in 0..MaxCatTx : \E amounts \in [1..n -> DoubleAmounts] :
       list = WithIds([i \in 1..n |->
                         [amount |-> amounts[i], category |-> CategoryNames[i],
                          date |-> DayNumber(TopClock.y, TopClock.m, TopClock.d),
                          type |-> "expense"]])
  /\ transactions = <<>>
  /\ constructed = FALSE
  /\ result = NoResult
  /\ InitApp

-----------------------------------------------------------------------------
(* The calendar specification: up to MaxCalTx transactions dated on the    *)
(* first and last days of the windows of one kind, in zones on both sides  *)
(* of UTC, with and without daylight saving time; or the month of the      *)
(* monthly scenario                                                        *)

CalClocks ==
  {[y |-> 2024, m |-> 0, d |-> 2],      \* Tuesday; the week began in 2023
   [y |-> 2024, m |-> 1, d |-> 29],     \* Thursday, leap day; the week ends
                                        \* in March
   [y |-> 2025, m |-> 6, d |-> 1],      \* Tuesday; first day of a half year
   [y |-> 2025, m |-> 10, d |-> 2],     \* Sunday on which "us" clocks go back
   [y |-> 2026, m |-> 11, d |-> 31]}    \* Thursday; last day of a year
CalZones ==
  {Utc,
   [offset |-> 9, dst |-> "none"],      \* Asia/Tokyo
   [offset |-> -5, dst |-> "us"],       \* America/New_York
   [offset |-> 10, dst |-> "au"]}       \* Australia/Sydney
Kinds == {"week", "month", "half", "year"}

\* the first days of the previous, the current and the next window of a kind
\* at clock c, and of the oldest month of the trend
FirstDays(c, kind) ==
  LET sunday == DayNumber(c.y, c.m, c.d) - GetDay(DayNumber(c.y, c.m, c.d))
      half == (c.m \div 6) * 6
  IN  CASE kind = "week" -> {sunday - 7, sunday, sunday + 7}
        [] kind = "month" -> {DayNumber(c.y, c.m - 5, 1),
                              DayNumber(c.y, c.m - 1, 1),
                              DayNumber(c.y, c.m, 1), DayNumber(c.y, c.m + 1, 1)}
        [] kind = "half" -> {DayNumber(c.y, half - 6, 1),
                             DayNumber(c.y, half, 1),
                             DayNumber(c.y, half + 6, 1)}
        [] kind = "year" -> {DayNumber(c.y - 1, 0, 1), DayNumber(c.y, 0, 1),
                             DayNumber(c.y + 1, 0, 1)}

\* those days and the days before them
CalDates(c, kind) ==
  FirstDays(c, kind) \cup {first - 1 : first \in FirstDays(c, kind)}

CalChoices(c, kind) ==
  [amount : {3}, category : {"Salary"}, date : CalDates(c, kind),
   type : {"income"}]
  \cup [amount : {3}, category : {"Food"}, date : CalDates(c, kind),
        type : {"expense"}]

\* an income of 5000 on the 1st and a Food expense of 2000 on the 5th of the
\* clock's month
MonthlyScenario(c) ==
  <<[amount |-> 5000, category |-> "Salary", date |-> DayNumber(c.y, c.m, 1),
     type |-> "income"],
    [amount |-> 2000, category |-> "Food", date |-> DayNumber(c.y, c.m, 5),
     type |-> "expense"]>>

InitCal ==
  /\ now \in CalClocks
  /\ tz \in CalZones
  /\ \/ \E kind \in Kinds : \E n \in 0..MaxCalTx :
          \E f \in [1..n -> CalChoices(now, kind)] : list = WithIds(f)
     \/ list = WithIds(MonthlyScenario(now))
  /\ transactions = <<>>
  /\ constructed = FALSE
  /\ result = NoResult
  /\ InitApp

-----------------------------------------------------------------------------
(* The category comparison specification: up to MaxCmpTx transactions of   *)
(* this month and the last under labels that differ in case only, among    *)
(* them an expense of amount 0, an expense two months old and incomes      *)

CmpChoices ==
  [amount : {1, -2}, category : {"Food", "food"},
   date : {DayNumber(TopClock.y, TopClock.m, TopClock.d),
           DayNumber(TopClock.y, TopClock.m, 0)},
   type : {"expense"}]
  \cup {[amount |-> 0, category |-> "food", type |-> "expense",
         date |-> DayNumber(TopClock.y, TopClock.m, TopClock.d)],
        [amount |-> 1, category |-> "Old", type |-> "expense",
         date |-> DayNumber(TopClock.y, TopClock.m - 1, 0)]}
  \cup [amount : {3}, category : {"Food", "Salary"},
        date : {DayNumber(TopClock.y, TopClock.m, TopClock.d)},
        type : {"income"}]

InitCmp ==
  /\ now = TopClock
  /\ tz = Utc
  /\ \E n \in 0..MaxCmpTx : \E f \in [1..n -> CmpChoices] : list = WithIds(f)
  /\ transactions = <<>>
  /\ constructed = FALSE
  /\ result = NoResult
  /\ InitApp

-----------------------------------------------------------------------------
(* The balance specification: up to MaxBalTx expenses of amount 2 or 3,    *)
(* each of this month under "Food" or a category of its own, or of last    *)
(* month under "Food"                                                      *)

BalChoices(i) ==
  [amount : {2, 3}, category : {"Food", CategoryNames[i]},
   date : {DayNumber(TopClock.y, TopClock.m, TopClock.d)},
   type : {"expense"}]
  \cup {[amount |-> 3, category |-> "Food", type |-> "expense",
         date |-> DayNumber(TopClock.y, TopClock.m, 0)]}

InitBal ==
  /\ now = TopClock
  /\ tz = Utc
  /\ \E n \in 0..MaxBalTx :
       \E f \in [1..n -> UNION {BalChoices(i) : i \in 1..n}] :
         /\ \A i \in 1..n : f[i] \in BalChoices(i)
         /\ list = WithIds(f)
  /\ transactions = <<>>
  /\ constructed = FALSE
  /\ result = NoResult
  /\ InitApp

-----------------------------------------------------------------------------
(* The variation specification: up to MaxVarTx expenses in tenths, the     *)
(* first in the clock's month and each next one a month earlier, over the  *)
(* six months of the trend and round again                                 *)

VarAmounts == {0, 1, 10}

InitVar ==
  /\ now = TopClock
  /\ tz = Utc
  /\ \E n \in 0..MaxVarTx : \E amounts \in [1..n -> VarAmounts] :
       list = WithIds([i \in 1..n |->
                         [amount |-> amounts[i], category |-> "Food",
                          date |-> DayNumber(TopClock.y,
                                             TopClock.m - ((i - 1) % TrendMonths),
                                             TopClock.d),
                          type |-> "expense"]])
  /\ transactions = <<>>
  /\ constructed = FALSE
  /\ result = NoResult
  /\ InitApp

-----------------------------------------------------------------------------
(* The specification of unparseable dates: up to MaxBadTx transactions,    *)
(* each an expense of the first of the month, an expense of today under    *)
(* another category, or an expense or an income whose date does not parse  *)

MaxBadTx == 3

BadChoices ==
  {[amount |-> 1, category |-> "Food", type |-> "expense",
    date |-> DayNumber(TopClock.y, TopClock.m, 1)],
   [amount |-> 1, category |-> "Rent", type |-> "expense",
    date |-> DayNumber(TopClock.y, TopClock.m, TopClock.d)],
   [amount |-> 1, category |-> "Travel", type |-> "expense", date |-> NaN],
   [amount |-> 3, category |-> "Salary", type |-> "income", date |-> NaN]}

InitBad ==
  /\ now = TopClock
  /\ tz = Utc
  /\ \E n \in 0..MaxBadTx : \E f \in [1..n -> BadChoices] : list = WithIds(f)
  /\ transactions = <<>>
  /\ constructed = FALSE
  /\ result = NoResult
  /\ InitApp

-----------------------------------------------------------------------------
(* The specification of input order: up to MaxOrdTx expenses, each of      *)
(* today, of amount 1 or 2 and a category of its own, or of the first of   *)
(* the month, of amount 1 and the category of the first                    *)

MaxOrdTx == 6

OrdChoices(i) ==
  [amount : {1, 2}, category : {CategoryNames[i]},
   date : {DayNumber(TopClock.y, TopClock.m, TopClock.d)},
   type : {"expense"}]
  \cup {[amount |-> 1, category |-> CategoryNames[1], type |-> "expense",
         date |-> DayNumber(TopClock.y, TopClock.m, 1)]}

RECURSIVE OrdLists(_)
OrdLists(n) ==
  IF n = 0 THEN {<<>>}
  ELSE {Append(s, c) : s \in OrdLists(n - 1), c \in OrdChoices(n)}

InitOrd ==
  /\ now = TopClock
  /\ tz = Utc
  /\ \E n \in 0..MaxOrdTx : \E f \in OrdLists(n) : list = WithIds(f)
  /\ transactions = <<>>
  /\ constructed = FALSE
  /\ result = NoResult
  /\ InitApp

-----------------------------------------------------------------------------
(* The clock specification: an engine on up to MaxClockTx transactions of  *)
(* the last day of January and the first of February, the wall clock at    *)
(* the last day of January and advancing by up to MaxTicks days            *)

MaxClockTx == 2
MaxTicks == 1
ClockStart == [y |-> 2024, m |-> 0, d |-> 31]

ClockChoices ==
  [amount : {3}, category : {"Salary"}, type : {"income"},
   date : {DayNumber(ClockStart.y, ClockStart.m, ClockStart.d),
           DayNumber(ClockStart.y, ClockStart.m, ClockStart.d + 1)}]
  \cup [amount : {2}, category : {"Food"}, type : {"expense"},
        date : {DayNumber(ClockStart.y, ClockStart.m, ClockStart.d),
                DayNumber(ClockStart.y, ClockStart.m, ClockStart.d + 1)}]

InitClock ==
  /\ now = ClockStart
  /\ tz = Utc
  /\ \E n \in 0..MaxClockTx : \E f \in [1..n -> ClockChoices] :
       list = SortByDate(WithIds(f))
  /\ transactions = list
  /\ constructed = TRUE
  /\ result = NoResult
  /\ InitApp

-----------------------------------------------------------------------------
(* The transaction store and the settings: React state, changed by the     *)
(* updates that the handlers request and React processes in order          *)

StoreTransaction(t, id) ==
  [id |-> id, amount |-> t.amount, category |-> t.category, date |-> t.date,
   type |-> t.type]

ConvertSettings(prev, from, to) ==
  [prev EXCEPT
     !.budgetGoals = [i \in DOMAIN @ |-> ConvertAmount(@[i], from, to)],
     !.savingsTarget = ConvertAmount(@, from, to),
     !.goalTargets =
       [i \in DOMAIN @ |->
          [targetAmount |-> ConvertAmount(@[i].targetAmount, from, to),
           currentAmount |-> ConvertAmount(@[i].currentAmount, from, to)]],
     !.lastCurrency = from]

\* the argument of setTransactions applied to the state prev
ApplyToStore(u, prev) ==
  CASE u.op = "prepend" -> <<u.tx>> \o prev
    [] u.op = "replace" -> SortByDate(u.txs)
    [] u.op = "update" ->
         [i \in DOMAIN prev |->
            IF prev[i].id = u.id THEN StoreTransaction(u.tx, u.id) ELSE prev[i]]
    [] u.op = "delete" -> SelectSeq(prev, LAMBDA t : t.id # u.id)
    [] u.op = "clear" -> <<>>
    [] u.op = "currency" ->
         IF u.convert
         THEN [i \in DOMAIN prev |->
                 [prev[i] EXCEPT !.amount = ConvertAmount(@, u.from, u.to)]]
         ELSE prev

\* the arguments of setBudgetGoals, setSavingsTargetState, setGoalTargets,
\* setLastCurrency, setCurrencyState and setUserSalary applied to prev
ApplyToSettings(u, prev) ==
  IF u.op # "currency" THEN prev
  ELSE IF u.convert
       THEN [ConvertSettings(prev, u.from, u.to) EXCEPT
               !.currency = u.to, !.userSalary = u.userSalary]
       ELSE [prev EXCEPT !.currency = u.to]

MaxStoreTx == 2     \* most transactions held and requested
MaxUpdates == 1     \* most updates waiting to be processed
MaxPromises == 2    \* most calls of addTransactions
MaxMillis == 1      \* last reading of Date.now()
MaxSwitches == 2    \* most calls of setCurrency

StoreChoices ==
  [amount : {10}, category : {"Food"}, type : {"expense"},
   date : {DayNumber(TopClock.y, TopClock.m, 1),
           DayNumber(TopClock.y, TopClock.m, TopClock.d)}]

Batches == UNION {[1..n -> StoreChoices] : n \in 0..MaxStoreTx}

\* every id in the store or in a requested update
KnownIds ==
  {store[i].id : i \in DOMAIN store}
  \cup {updates[k].tx.id : k \in {j \in DOMAIN updates : updates[j].op = "prepend"}}
  \cup UNION {{updates[k].txs[i].id : i \in DOMAIN updates[k].txs} :
                k \in {j \in DOMAIN updates : updates[j].op = "replace"}}

InitStore ==
  /\ now = TopClock
  /\ tz = Utc
  /\ list = <<>>
  /\ transactions = <<>>
  /\ constructed = FALSE
  /\ result = NoResult
  /\ InitApp

\* the amounts of the currency specification, in tenths of a rupee
CurrencyAmounts == {50, 1300, 2500}
Salaries == {0, 500000}

InitCurrency ==
  /\ now = TopClock
  /\ tz = Utc
  /\ list = <<>>
  /\ transactions = <<>>
  /\ constructed = FALSE
  /\ result = NoResult
  /\ call = Idle
  /\ millis = 0
  /\ \E n \in 0..1 : \E a \in [1..n -> CurrencyAmounts] :
       store = [i \in 1..n |->
                  [id |-> <<i>>, amount |-> a[i], category |-> "Food",
                   date |-> DayNumber(TopClock.y, TopClock.m, TopClock.d),
                   type |-> "expense"]]
  /\ updates = <<>>
  /\ promises = <<>>
  /\ \E salary \in Salaries :
       settings = [InitialSettings EXCEPT !.userSalary = salary]
  /\ history = <<>>

-----------------------------------------------------------------------------
(* The engine as a state machine                                           *)

Queries ==
  {"getWeeklyAnalytics", "getMonthlyAnalytics", "getHalfYearlyAnalytics",
   "getAnnualAnalytics", "getWeeklyComparison", "getMonthlyComparison",
   "getHalfYearlyComparison", "getYearlyComparison", "getSpendingTrends",
   "getCategoryComparison", "getFinancialHealthScore"}

\* what the query named q returns on the snapshot txs
Answer(q, txs) ==
  CASE q = "getWeeklyAnalytics" -> GetWeeklyAnalytics(txs)
    [] q = "getMonthlyAnalytics" -> GetMonthlyAnalytics(txs)
    [] q = "getHalfYearlyAnalytics" -> GetHalfYearlyAnalytics(txs)
    [] q = "getAnnualAnalytics" -> GetAnnualAnalytics(txs)
    [] q = "getWeeklyComparison" -> GetWeeklyComparison(txs)
    [] q = "getMonthlyComparison" -> GetMonthlyComparison(txs)
    [] q = "getHalfYearlyComparison" -> GetHalfYearlyComparison(txs)
    [] q = "getYearlyComparison" -> GetYearlyComparison(txs)
    [] q = "getSpendingTrends" -> GetSpendingTrends(txs)
    [] q = "getCategoryComparison" -> GetCategoryComparison(txs)
    [] q = "getFinancialHealthScore" -> GetFinancialHealthScore(txs)

\* new AnalyticsEngine(list): Array.prototype.sort sorts the array it is
\* called on and returns that same array, so the snapshot is the caller's
\* array object
Construct ==
  /\ list' \in SortOutcomes(list)
  /\ transactions' = list'
  /\ constructed' = TRUE
  /\ result' = NoResult
  /\ UNCHANGED <<now, tz>>
  /\ UNCHANGED appVars

\* a query reads the snapshot and the clock and returns a fresh value
WeeklyAnalytics ==
  /\ constructed
  /\ result' = [query |-> "getWeeklyAnalytics",
                value |-> GetWeeklyAnalytics(transactions)]
  /\ UNCHANGED <<now, tz, list, transactions, constructed>>
  /\ UNCHANGED appVars

\* a monthly query that filters the snapshot itself instead of a copy
MonthlyAnalyticsInPlace ==
  /\ constructed
  /\ transactions' =
       GetTransactionsInPeriod(transactions,
                               StartOfDay(DayNumber(now.y, now.m, 1)),
                               EndOfDay(DayNumber(now.y, now.m + 1, 0)))
  /\ result' = [query |-> "getMonthlyAnalytics",
                value |-> GetMonthlyAnalytics(transactions')]
  /\ UNCHANGED <<now, tz, list, constructed>>
  /\ UNCHANGED appVars

MonthlyAnalytics ==
  /\ constructed
  /\ result' = [query |-> "getMonthlyAnalytics",
                value |-> GetMonthlyAnalytics(transactions)]
  /\ UNCHANGED <<now, tz, list, transactions, constructed>>
  /\ UNCHANGED appVars

MonthlyAnalyticsDouble ==
  /\ constructed
  /\ result' = [query |-> "getMonthlyAnalytics",
                value |-> GetMonthlyAnalyticsDouble(transactions)]
  /\ UNCHANGED <<now, tz, list, transactions, constructed>>
  /\ UNCHANGED appVars

FinancialHealthScoreDouble ==
  /\ constructed
  /\ result' = [query |-> "getFinancialHealthScore",
                value |-> GetFinancialHealthScoreDouble(transactions)]
  /\ UNCHANGED <<now, tz, list, transactions, constructed>>
  /\ UNCHANGED appVars

HalfYearlyAnalytics ==
  /\ constructed
  /\ result' = [query |-> "getHalfYearlyAnalytics",
                value |-> GetHalfYearlyAnalytics(transactions)]
  /\ UNCHANGED <<now, tz, list, transactions, constructed>>
  /\ UNCHANGED appVars

AnnualAnalytics ==
  /\ constructed
  /\ result' = [query |-> "getAnnualAnalytics",
                value |-> GetAnnualAnalytics(transactions)]
  /\ UNCHANGED <<now, tz, list, transactions, constructed>>
  /\ UNCHANGED appVars

WeeklyComparison ==
  /\ constructed
  /\ result' = [query |-> "getWeeklyComparison",
                value |-> GetWeeklyComparison(transactions)]
  /\ UNCHANGED <<now, tz, list, transactions, constructed>>
  /\ UNCHANGED appVars

MonthlyComparison ==
  /\ constructed
  /\ result' = [query |-> "getMonthlyComparison",
                value |-> GetMonthlyComparison(transactions)]
  /\ UNCHANGED <<now, tz, list, transactions, constructed>>
  /\ UNCHANGED appVars

HalfYearlyComparison ==
  /\ constructed
  /\ result' = [query |-> "getHalfYearlyComparison",
                value |-> GetHalfYearlyComparison(transactions)]
  /\ UNCHANGED <<now, tz, list, transactions, constructed>>
  /\ UNCHANGED appVars

YearlyComparison ==
  /\ constructed
  /\ result' = [query |-> "getYearlyComparison",
                value |-> GetYearlyComparison(transactions)]
  /\ UNCHANGED <<now, tz, list, transactions, constructed>>
  /\ UNCHANGED appVars

SpendingTrends ==
  /\ constructed
  /\ result' = [query |-> "getSpendingTrends",
                value |-> GetSpendingTrends(transactions)]
  /\ UNCHANGED <<now, tz, list, transactions, constructed>>
  /\ UNCHANGED appVars

CategoryComparison ==
  /\ constructed
  /\ result' = [query |-> "getCategoryComparison",
                value |-> GetCategoryComparison(transactions)]
  /\ UNCHANGED <<now, tz, list, transactions, constructed>>
  /\ UNCHANGED appVars

FinancialHealthScore ==
  /\ constructed
  /\ result' = [query |-> "getFinancialHealthScore",
                value |-> GetFinancialHealthScore(transactions)]
  /\ UNCHANGED <<now, tz, list, transactions, constructed>>
  /\ UNCHANGED appVars

\* the wall clock reaches the next day
Tick ==
  /\ DayNumber(now.y, now.m, now.d)
       < DayNumber(ClockStart.y, ClockStart.m, ClockStart.d) + MaxTicks
  /\ now' = IF now.d < MonthLen(now.y, now.m) THEN [now EXCEPT !.d = @ + 1]
            ELSE [y |-> NormYear(now.y, now.m + 1),
                  m |-> NormMonth(now.m + 1), d |-> 1]
  /\ UNCHANGED <<tz, list, transactions, constructed, result>>
  /\ UNCHANGED appVars

\* getFinancialHealthScore() statement by statement: each of the three
\* queries it calls reads the clock itself (const now = new Date())
HealthScoreMonthly ==
  /\ constructed
  /\ call.pc \in {"idle", "returned"}
  /\ call' = [pc |-> "trends", clock |-> <<now>>,
              monthlyAnalytics |-> GetMonthlyAnalytics(transactions)]
  /\ UNCHANGED <<now, tz, list, transactions, constructed, result>>
  /\ UNCHANGED <<millis, store, updates, promises, settings, history>>

HealthScoreTrends ==
  /\ call.pc = "trends"
  /\ call' = [pc |-> "comparison", clock |-> Append(call.clock, now),
              monthlyAnalytics |-> call.monthlyAnalytics,
              trends |-> GetSpendingTrends(transactions)]
  /\ UNCHANGED <<now, tz, list, transactions, constructed, result>>
  /\ UNCHANGED <<millis, store, updates, promises, settings, history>>

HealthScoreReturn ==
  /\ call.pc = "comparison"
  /\ call' = [pc |-> "returned", clock |-> Append(call.clock, now),
              monthlyAnalytics |-> call.monthlyAnalytics,
              trends |-> call.trends,
              comparison |-> GetMonthlyComparison(transactions)]
  /\ result' = [query |-> "getFinancialHealthScore",
                value |-> HealthScoreOf(call.monthlyAnalytics, call.trends,
                                        call'.comparison)]
  /\ UNCHANGED <<now, tz, list, transactions, constructed>>
  /\ UNCHANGED <<millis, store, updates, promises, settings, history>>

engineVars == <<now, tz, list, transactions, constructed, result, call>>

\* addTransaction(transaction)
AddTransaction(transaction) ==
  /\ Len(store) + Len(updates) < MaxStoreTx
  /\ updates' = Append(updates,
                       [op |-> "prepend",
                        tx |-> StoreTransaction(transaction, <<millis>>)])
  /\ UNCHANGED <<millis, store, promises, settings, history>>
  /\ UNCHANGED engineVars

\* the readings of Date.now() that a call starting at millis can take for
\* n elements, one reading for each element
Readings(n) ==
  {stamps \in [1..n -> millis..MaxMillis] :
     \A i \in 1..(n - 1) : stamps[i] <= stamps[i + 1]}

\* addTransactions(newTransactions): the executor of the promise runs at
\* once, reads the clock for each element, requests the replacement and
\* leaves the promise pending until the timer fires
AddTransactions(newTransactions) ==
  /\ Len(updates) < MaxUpdates
  /\ Len(promises) < MaxPromises
  /\ \E stamps \in Readings(Len(newTransactions)) :
       /\ updates' = Append(updates,
                            [op |-> "replace",
                             txs |-> [i \in DOMAIN newTransactions |->
                                        StoreTransaction(newTransactions[i],
                                                         <<stamps[i], i - 1>>)]])
       /\ millis' = IF stamps = <<>> THEN millis ELSE stamps[Len(stamps)]
  /\ promises' = Append(promises, "pending")
  /\ UNCHANGED <<store, settings, history>>
  /\ UNCHANGED engineVars

\* setTimeout(resolve, 100) fires
Timeout ==
  /\ \E i \in DOMAIN promises :
       /\ promises[i] = "pending"
       /\ promises' = [promises EXCEPT ![i] = "resolved"]
  /\ UNCHANGED <<millis, store, updates, settings, history>>
  /\ UNCHANGED engineVars

\* updateTransaction(id, updatedTransaction)
UpdateTransaction(id, updatedTransaction) ==
  /\ Len(updates) < MaxUpdates
  /\ updates' = Append(updates, [op |-> "update", id |-> id,
                                 tx |-> updatedTransaction])
  /\ UNCHANGED <<millis, store, promises, settings, history>>
  /\ UNCHANGED engineVars

\* deleteTransaction(id)
DeleteTransaction(id) ==
  /\ Len(updates) < MaxUpdates
  /\ updates' = Append(updates, [op |-> "delete", id |-> id])
  /\ UNCHANGED <<millis, store, promises, settings, history>>
  /\ UNCHANGED engineVars

\* clearAllTransactions()
ClearAllTransactions ==
  /\ Len(updates) < MaxUpdates
  /\ updates' = Append(updates, [op |-> "clear"])
  /\ UNCHANGED <<millis, store, promises, settings, history>>
  /\ UNCHANGED engineVars

\* React processes the oldest requested update
ProcessUpdate ==
  /\ updates # <<>>
  /\ store' = ApplyToStore(Head(updates), store)
  /\ settings' = ApplyToSettings(Head(updates), settings)
  /\ updates' = Tail(updates)
  /\ UNCHANGED <<millis, promises, history>>
  /\ UNCHANGED engineVars

\* Date.now() reaches the next millisecond
Millisecond ==
  /\ millis < MaxMillis
  /\ millis' = millis + 1
  /\ UNCHANGED <<store, updates, promises, settings, history>>
  /\ UNCHANGED engineVars

\* setCurrency(newCurrency, convertExistingData), called from a click when
\* the state is rendered: the currencyChange event reaches the listeners of
\* TransactionProvider and of App before the settings are converted
SetCurrency(newCurrency, convertExistingData) ==
  /\ updates = <<>>
  /\ Len(history) < MaxSwitches
  /\ LET convert == convertExistingData /\ newCurrency # settings.currency
     IN  updates' =
           <<[op |-> "currency", from |-> settings.currency,
              to |-> newCurrency, convert |-> convert,
              userSalary |->
                IF convert /\ settings.userSalary > 0
                THEN ConvertAmount(settings.userSalary, settings.currency,
                                   newCurrency)
                ELSE settings.userSalary]>>
  /\ history' = Append(history,
                       [store |-> store, settings |-> settings,
                        to |-> newCurrency,
                        convertExistingData |-> convertExistingData])
  /\ UNCHANGED <<millis, store, promises, settings>>
  /\ UNCHANGED engineVars

Next ==
  \/ Construct
  \/ WeeklyAnalytics
  \/ MonthlyAnalytics
  \/ HalfYearlyAnalytics
  \/ AnnualAnalytics
  \/ WeeklyComparison
  \/ MonthlyComparison
  \/ HalfYearlyComparison
  \/ YearlyComparison
  \/ SpendingTrends
  \/ CategoryComparison
  \/ FinancialHealthScore

Spec == Init /\ [][Next]_vars

NextTop ==
  \/ Construct
  \/ MonthlyAnalytics
  \/ MonthlyComparison

SpecTop == InitTop /\ [][NextTop]_vars

NextDouble ==
  \/ Construct
  \/ MonthlyAnalyticsDouble

SpecDouble == InitDouble /\ [][NextDouble]_vars

NextVar ==
  \/ Construct
  \/ FinancialHealthScoreDouble

SpecVar == InitVar /\ [][NextVar]_vars

NextCal ==
  \/ Construct
  \/ WeeklyAnalytics
  \/ MonthlyAnalytics
  \/ HalfYearlyAnalytics
  \/ AnnualAnalytics
  \/ WeeklyComparison
  \/ MonthlyComparison
  \/ HalfYearlyComparison
  \/ YearlyComparison
  \/ SpendingTrends

SpecCal == InitCal /\ [][NextCal]_vars

NextCmp ==
  \/ Construct
  \/ CategoryComparison

SpecCmp == InitCmp /\ [][NextCmp]_vars

NextBal ==
  \/ Construct
  \/ FinancialHealthScore

SpecBal == InitBal /\ [][NextBal]_vars

SpecBad == InitBad /\ [][Next]_vars

NextOrd ==
  \/ Construct
  \/ MonthlyAnalytics
  \/ MonthlyComparison
  \/ SpendingTrends
  \/ CategoryComparison
  \/ FinancialHealthScore

SpecOrd == InitOrd /\ [][NextOrd]_vars

NextClock ==
  \/ Tick
  \/ HealthScoreMonthly
  \/ HealthScoreTrends
  \/ HealthScoreReturn

SpecClock == InitClock /\ [][NextClock]_vars

NextStore ==
  \/ \E transaction \in StoreChoices : AddTransaction(transaction)
  \/ \E newTransactions \in Batches : AddTransactions(newTransactions)
  \/ \E id \in KnownIds : \E updatedTransaction \in StoreChoices :
       UpdateTransaction(id, updatedTransaction)
  \/ \E id \in KnownIds : DeleteTransaction(id)
  \/ ClearAllTransactions
  \/ ProcessUpdate
  \/ Timeout
  \/ Millisecond

SpecStore == InitStore /\ [][NextStore]_vars

NextCurrency ==
  \/ \E newCurrency \in Currencies : \E convertExistingData \in BOOLEAN :
       SetCurrency(newCurrency, convertExistingData)
  \/ ProcessUpdate

SpecCurrency == InitCurrency /\ [][NextCurrency]_vars

-----------------------------------------------------------------------------
(* Vocabulary of the properties                                            *)

AnalyticsQueries ==
  {"getWeeklyAnalytics", "getMonthlyAnalytics", "getHalfYearlyAnalytics",
   "getAnnualAnalytics"}
ComparisonQueries ==
  {"getWeeklyComparison", "getMonthlyComparison", "getHalfYearlyComparison",
   "getYearlyComparison"}

\* every PeriodSummary the last query returned
Summaries ==
  IF result.query \in AnalyticsQueries THEN {result.value}
  ELSE IF result.query \in ComparisonQueries
       THEN {result.value.current, result.value.previous}
       ELSE {}

ZeroSummary(s) ==
  /\ s.totalIncome = 0
  /\ s.totalExpenses = 0
  /\ s.netAmount = 0
  /\ s.transactionCount = 0
  /\ s.averageDaily = RZero
  /\ s.savingsRate = RZero
  /\ s.topCategories = <<>>

IsHealth == result.query = "getFinancialHealthScore"
FactorScore(i) == result.value.factors[i].score
InScoreRange(x) == NGeq(x, NInt(0)) /\ NLeq(x, NInt(100))

\* the weighted sum of the sub-scores of the returned factors, rounded
WeightedScore ==
  Round(NAdd(NAdd(NAdd(NScale(FactorScore(1), <<3, 10>>),
                       NScale(FactorScore(2), <<1, 4>>)),
                  NScale(FactorScore(3), <<1, 5>>)),
             NScale(FactorScore(4), <<1, 4>>)))

-----------------------------------------------------------------------------
(* C1: constructing the engine leaves the caller's list as it was (same     *)
(* transactions, same order) and gives the engine a date-descending copy.   *)
(* The constructor sorts the caller's array in place, so this fails.        *)
C1_ConstructorKeepsCallerList ==
  [][Construct => (list' = list /\ transactions' = SortByDate(list))]_vars

C3_HealthScoreInRange ==
  IsHealth =>
    /\ result.value.score \in 0..100
    /\ Len(result.value.factors) = 4
    /\ \A i \in 1..4 : InScoreRange(FactorScore(i))

(* C4 as stated: on an empty transaction set the sub-scores are 0 (Savings  *)
(* Rate), 0 (Spending Consistency), 0 (Income Growth) and 100 (Expense      *)
(* Balance) and the overall score is their rounded weighted sum.            *)
C4_EmptyHealthAsStated ==
  (IsHealth /\ transactions = <<>>) =>
    /\ FactorScore(1) = NInt(0)
    /\ FactorScore(2) = NInt(0)
    /\ FactorScore(3) = NInt(0)
    /\ FactorScore(4) = NInt(100)
    /\ result.value.score = WeightedScore

(* C4 amended: on an empty transaction set the sub-scores are 0 (Savings    *)
(* Rate), 100 (Spending Consistency: no variation), 50 (Income Growth: the  *)
(* neutral midpoint) and 100 (Expense Balance), and the overall score is    *)
(* their rounded weighted sum, 60.                                          *)
C4_EmptyHealth ==
  (IsHealth /\ transactions = <<>>) =>
    /\ [i \in 1..4 |-> result.value.factors[i].name]
         = <<"Savings Rate", "Spending Consistency", "Income Growth",
             "Expense Balance">>
    /\ FactorScore(1) = NInt(0)
    /\ FactorScore(2) = NInt(100)
    /\ FactorScore(3) = NInt(50)
    /\ FactorScore(4) = NInt(100)
    /\ result.value.score = WeightedScore
    /\ result.value.score = 60

C4_Witness == IsHealth /\ constructed /\ transactions = <<>> /\ list = <<>>

(* C5: on an empty transaction set every period summary (current and       *)
(* previous, all four kinds) is all zero with no top categories, every      *)
(* growth percentage is 0, the trend has 6 all-zero points and the category *)
(* comparison is empty.                                                     *)
C5_EmptySnapshotGivesZeros ==
  (transactions = <<>> /\ result.query \in Queries) =>
    /\ \A s \in Summaries : ZeroSummary(s)
    /\ result.query \in ComparisonQueries =>
         /\ result.value.growth.income = RZero
         /\ result.value.growth.expenses = RZero
         /\ result.value.growth.savings = RZero
    /\ result.query = "getSpendingTrends" =>
         /\ Len(result.value) = 6
         /\ \A i \in 1..6 : /\ result.value[i].income = 0
                            /\ result.value[i].expenses = 0
                            /\ result.value[i].savings = 0
    /\ result.query = "getCategoryComparison" => result.value = <<>>

C5_Witness ==
  /\ constructed
  /\ transactions = <<>>
  /\ result.query = "getHalfYearlyComparison"

\* the windows as calendar days <<first, last>>
CurrentWindow(kind) ==
  CASE kind = "week" -> <<Today - GetDay(Today), Today - GetDay(Today) + 6>>
    [] kind = "month" -> <<DayNumber(now.y, now.m, 1),
                           DayNumber(now.y, now.m, MonthLen(now.y, now.m))>>
    [] kind = "half" -> IF now.m < 6
                        THEN <<DayNumber(now.y, 0, 1), DayNumber(now.y, 5, 30)>>
                        ELSE <<DayNumber(now.y, 6, 1), DayNumber(now.y, 11, 31)>>
    [] kind = "year" -> <<DayNumber(now.y, 0, 1), DayNumber(now.y, 11, 31)>>

PreviousWindow(kind) ==
  CASE kind = "week" -> <<Today - GetDay(Today) - 7, Today - GetDay(Today) - 1>>
    [] kind = "month" ->
         IF now.m = 0
         THEN <<DayNumber(now.y - 1, 11, 1), DayNumber(now.y - 1, 11, 31)>>
         ELSE <<DayNumber(now.y, now.m - 1, 1),
                DayNumber(now.y, now.m - 1, MonthLen(now.y, now.m - 1))>>
    [] kind = "half" ->
         IF now.m < 6
         THEN <<DayNumber(now.y - 1, 6, 1), DayNumber(now.y - 1, 11, 31)>>
         ELSE <<DayNumber(now.y, 0, 1), DayNumber(now.y, 5, 30)>>
    [] kind = "year" ->
         <<DayNumber(now.y - 1, 0, 1), DayNumber(now.y - 1, 11, 31)>>

\* the window of the trend point k of 6 (k = 6 is the clock's month)
TrendWindow(k) ==
  LET back == 6 - k
      y == IF now.m - back < 0 THEN now.y - 1 ELSE now.y
      m == IF now.m - back < 0 THEN now.m - back + 12 ELSE now.m - back
  IN  <<DayNumber(y, m, 1), DayNumber(y, m, MonthLen(y, m))>>

KindOf(q) ==
  CASE q \in {"getWeeklyAnalytics", "getWeeklyComparison"} -> "week"
    [] q \in {"getMonthlyAnalytics", "getMonthlyComparison"} -> "month"
    [] q \in {"getHalfYearlyAnalytics", "getHalfYearlyComparison"} -> "half"
    [] q \in {"getAnnualAnalytics", "getYearlyComparison"} -> "year"

\* every returned PeriodSummary paired with the window it is about
SummaryWindows ==
  IF result.query \in AnalyticsQueries
  THEN {<<result.value, CurrentWindow(KindOf(result.query))>>}
  ELSE IF result.query \in ComparisonQueries
       THEN {<<result.value.current, CurrentWindow(KindOf(result.query))>>,
             <<result.value.previous, PreviousWindow(KindOf(result.query))>>}
       ELSE {}

\* the positions of the snapshot whose instant lies in window w
InWindow(w) ==
  {i \in 1..Len(transactions) :
     /\ ParseDate(transactions[i].date) # NaN
     /\ ParseDate(transactions[i].date) >= StartOfDay(w[1])
     /\ ParseDate(transactions[i].date) <= EndOfDay(w[2])}

TypedIn(w, ty) == {i \in InWindow(w) : transactions[i].type = ty}

RECURSIVE AbsTotal(_)
AbsTotal(S) ==
  IF S = {} THEN 0
  ELSE LET i == CHOOSE j \in S : TRUE
       IN  (IF transactions[i].amount < 0 THEN -transactions[i].amount
            ELSE transactions[i].amount) + AbsTotal(S \ {i})

(* C6: in every returned PeriodSummary totalIncome >= 0, totalExpenses >= 0 *)
(* and netAmount = totalIncome - totalExpenses, also with negative amounts. *)
C6_TotalsNonNegative ==
  \A s \in Summaries :
    /\ s.totalIncome >= 0
    /\ s.totalExpenses >= 0
    /\ s.netAmount = s.totalIncome - s.totalExpenses

C6_Witness ==
  /\ result.query = "getMonthlyComparison"
  /\ \E i \in TypedIn(CurrentWindow("month"), "income") :
       transactions[i].amount < 0
  /\ \E i \in TypedIn(PreviousWindow("month"), "expense") :
       transactions[i].amount < 0

(* C7: classification is by type, never by sign: in every summary and trend *)
(* point the income total is the sum of |amount| over exactly the in-window *)
(* income transactions, the expense total likewise over the in-window       *)
(* expenses, and transactionCount counts the in-window transactions of both *)
(* types.                                                                   *)
C7_ClassifiedByType ==
  /\ \A sw \in SummaryWindows :
       /\ sw[1].totalIncome = AbsTotal(TypedIn(sw[2], "income"))
       /\ sw[1].totalExpenses = AbsTotal(TypedIn(sw[2], "expense"))
       /\ sw[1].totalIncome + sw[1].totalExpenses = AbsTotal(InWindow(sw[2]))
       /\ sw[1].transactionCount = Cardinality(InWindow(sw[2]))
  /\ result.query = "getSpendingTrends" =>
       \A k \in 1..Len(result.value) :
         /\ result.value[k].income = AbsTotal(TypedIn(TrendWindow(k), "income"))
         /\ result.value[k].expenses
              = AbsTotal(TypedIn(TrendWindow(k), "expense"))

C7_Witness ==
  /\ result.query = "getAnnualAnalytics"
  /\ result.value.transactionCount = 2
  /\ \E i \in TypedIn(CurrentWindow("year"), "income") :
       transactions[i].amount < 0
  /\ \E i \in TypedIn(CurrentWindow("year"), "expense") :
       transactions[i].amount > 0

(* C10: the division guards: savingsRate is 0 whenever totalIncome is 0 and *)
(* netAmount / totalIncome x 100 otherwise; averageDaily is 0 whenever      *)
(* totalExpenses is 0 and totalExpenses / dayCount with dayCount > 0        *)
(* otherwise; neither is NaN or infinite.                                   *)
C10_DivisionGuards ==
  \A s \in Summaries :
    /\ IsFinite(s.savingsRate)
    /\ IsFinite(s.averageDaily)
    /\ s.totalIncome = 0 => s.savingsRate = RZero
    /\ s.totalIncome # 0 =>
         s.savingsRate = Rat(100 * s.netAmount, s.totalIncome)
    /\ s.totalExpenses = 0 => s.averageDaily = RZero
    /\ s.totalExpenses # 0 =>
         \E dayCount \in 1..366 :
           s.averageDaily = Rat(s.totalExpenses, dayCount)

C10_Witness ==
  /\ result.query = "getHalfYearlyAnalytics"
  /\ result.value.totalIncome = 0
  /\ result.value.totalExpenses > 0

\* the expense categories of window w and what the snapshot holds of each
ExpenseCategoriesIn(w) == {transactions[i].category : i \in TypedIn(w, "expense")}
ExpensesOf(w, c) == {i \in TypedIn(w, "expense") : transactions[i].category = c}

(* C8: topCategories has at most 5 entries, lists each category once, holds *)
(* only categories of in-window expenses with amount = sum of |amount| and  *)
(* count = number of those transactions, is sorted by amount non-increasing *)
(* and is the top of the ranking: no omitted expense category has a larger  *)
(* amount than a listed one.                                                *)
C8_TopCategories ==
  \A sw \in SummaryWindows :
    LET top == sw[1].topCategories
        cats == ExpenseCategoriesIn(sw[2])
        listed == {top[i].category : i \in 1..Len(top)}
    IN  /\ Len(top) <= 5
        /\ Len(top) = (IF Cardinality(cats) < 5 THEN Cardinality(cats) ELSE 5)
        /\ \A i, j \in 1..Len(top) : top[i].category = top[j].category => i = j
        /\ \A i \in 1..Len(top) :
             /\ top[i].category \in cats
             /\ top[i].amount = AbsTotal(ExpensesOf(sw[2], top[i].category))
             /\ top[i].count = Cardinality(ExpensesOf(sw[2], top[i].category))
        /\ \A i, j \in 1..Len(top) : i < j => top[i].amount >= top[j].amount
        /\ \A c \in cats \ listed : \A i \in 1..Len(top) :
             AbsTotal(ExpensesOf(sw[2], c)) <= top[i].amount

C8_Witness ==
  /\ result.query = "getMonthlyAnalytics"
  /\ Cardinality(ExpenseCategoriesIn(CurrentWindow("month"))) = 6
  /\ Len(result.value.topCategories) = 5
  /\ result.value.topCategories[1].count = 1
  /\ result.value.topCategories[1].amount > result.value.topCategories[5].amount
  /\ TypedIn(CurrentWindow("month"), "income") # {}

\* a double as the natural number d * 2^60 (d is 0 or at least 2^-7)
Fixed(d) == IF d = DZero THEN <<>> ELSE BigShl(d.m, d.e + 60)
Hundred == BigShl(BigOf(100), 60)
\* 2^-45 on that scale: what two roundings of up to 100 percent can add up to
Rounding == BigShl(<<1>>, 15)
Near(x, y, tolerance) ==
  BigLeq(x, BigAdd(y, tolerance)) /\ BigLeq(y, BigAdd(x, tolerance))

\* the sum, without rounding, of the first n percentages
RECURSIVE PercentageSum(_, _)
PercentageSum(top, n) ==
  IF n = 0 THEN <<>>
  ELSE BigAdd(PercentageSum(top, n - 1), Fixed(top[n].percentage))

\* percentage is amount / totalExpenses x 100 to within 2^-45 (0 when
\* totalExpenses is 0) and lies in [0,100]
PercentageOfTotal(entry, total) ==
  /\ total = 0 => entry.percentage = DZero
  /\ total > 0 =>
       Near(BigTimes(Fixed(entry.percentage), total),
            BigShl(BigOf(100 * entry.amount), 60),
            BigTimes(Rounding, total))
  /\ BigLeq(Fixed(entry.percentage), Hundred)

GrowthRule(current, previous) ==
  IF previous # 0 THEN Rat(100 * (current - previous), previous)
  ELSE IF current > 0 THEN FromInt(100) ELSE RZero

(* C11: in each of the four comparison queries the income, expenses and     *)
(* savings growth (the last on netAmount, which may be negative) equals     *)
(* (current - previous) / previous x 100 when previous is not 0, 100 when   *)
(* previous = 0 and current > 0, and 0 when previous = 0 and current <= 0.  *)
C11_GrowthRule ==
  result.query \in ComparisonQueries =>
    LET c == result.value.current
        p == result.value.previous
        g == result.value.growth
    IN  /\ g.income = GrowthRule(c.totalIncome, p.totalIncome)
        /\ g.expenses = GrowthRule(c.totalExpenses, p.totalExpenses)
        /\ g.savings = GrowthRule(c.netAmount, p.netAmount)

\* a previous window with expenses only and a current one with income only:
\* the previous netAmount is negative, the previous income 0
C11_Witness ==
  /\ result.query \in ComparisonQueries
  /\ result.value.previous.netAmount < 0
  /\ result.value.previous.totalIncome = 0
  /\ result.value.current.totalIncome > 0
  /\ result.value.current.totalExpenses = 0

(* C12: whatever the clock date, a snapshot of exactly an income of 5000    *)
(* dated the 1st of the clock's month and a Food expense of 2000 dated the  *)
(* 5th makes getMonthlyAnalytics return totalIncome 5000, totalExpenses     *)
(* 2000, netAmount 3000, savingsRate 60, transactionCount 2 and the single  *)
(* top category Food with amount 2000 and percentage 100.  Where local time *)
(* is behind UTC the income of the 1st is left out, so this fails.          *)
C12_MonthlyScenario ==
  (/\ result.query = "getMonthlyAnalytics"
   /\ Len(transactions) = 2
   /\ \E i \in 1..2 : /\ transactions[i].type = "income"
                      /\ transactions[i].amount = 5000
                      /\ transactions[i].date = DayNumber(now.y, now.m, 1)
   /\ \E i \in 1..2 : /\ transactions[i].type = "expense"
                      /\ transactions[i].amount = 2000
                      /\ transactions[i].category = "Food"
                      /\ transactions[i].date = DayNumber(now.y, now.m, 5)) =>
    /\ result.value.totalIncome = 5000
    /\ result.value.totalExpenses = 2000
    /\ result.value.netAmount = 3000
    /\ result.value.savingsRate = FromInt(60)
    /\ result.value.transactionCount = 2
    /\ Len(result.value.topCategories) = 1
    /\ result.value.topCategories[1].category = "Food"
    /\ result.value.topCategories[1].amount = 2000
    /\ result.value.topCategories[1].percentage = FromInt(100)

\* the positions of the snapshot whose calendar date lies in window w
DatedIn(w) == {i \in 1..Len(transactions) : transactions[i].date \in w[1]..w[2]}

(* C13: for each analytics query and every clock date a transaction is      *)
(* counted if and only if its calendar date lies in the window, boundary    *)
(* days included: Sunday through Saturday of the clock's week, the 1st      *)
(* through the last day of the clock's month, Jan 1 - Jun 30 or Jul 1 -     *)
(* Dec 31 of the clock's year, Jan 1 - Dec 31 of the clock's year; the      *)
(* window contains the clock date.  Where local time is behind UTC a        *)
(* transaction dated on the first day of a window is left out and one dated *)
(* on the day after its last day is counted, so this fails.                 *)
C13_CountedByCalendarDate ==
  result.query \in AnalyticsQueries =>
    LET w == CurrentWindow(KindOf(result.query))
    IN  /\ Today \in w[1]..w[2]
        /\ result.value.transactionCount = Cardinality(DatedIn(w))
        /\ result.value.totalIncome + result.value.totalExpenses
             = AbsTotal(DatedIn(w))

(* C14: in each comparison query the previous window is the immediately     *)
(* preceding window of the same kind: the previous Sunday-Saturday week,    *)
(* calendar month (December of the year before when the clock is in         *)
(* January), calendar half (of the year before when the clock is in         *)
(* Jan-Jun) or calendar year.  It ends on the day before the current window *)
(* starts, and no transaction is counted in both.                           *)
C14_PreviousWindowAdjacent ==
  result.query \in ComparisonQueries =>
    LET c == CurrentWindow(KindOf(result.query))
        p == PreviousWindow(KindOf(result.query))
    IN  /\ p[2] + 1 = c[1]
        /\ KindOf(result.query) = "week" => (GetDay(p[1]) = 0 /\ p[2] = p[1] + 6)
        /\ result.value.current.transactionCount = Cardinality(InWindow(c))
        /\ result.value.previous.transactionCount = Cardinality(InWindow(p))
        /\ result.value.previous.totalIncome = AbsTotal(TypedIn(p, "income"))
        /\ result.value.previous.totalExpenses = AbsTotal(TypedIn(p, "expense"))
        /\ InWindow(c) \cap InWindow(p) = {}

\* a transaction dated on the day before the current half year starts, in
\* the year before the clock's, counts for the previous half year only
C14_Witness ==
  /\ result.query = "getHalfYearlyComparison"
  /\ now.m < 6
  /\ Len(transactions) = 1
  /\ transactions[1].date = DayNumber(now.y - 1, 11, 31)
  /\ result.value.previous.transactionCount = 1
  /\ result.value.current.transactionCount = 0

\* the day count the claim gives a window of a kind
DayCount(kind, w) ==
  CASE kind = "week" -> 7
    [] kind \in {"month", "half"} -> w[2] - w[1] + 1
    [] kind = "year" -> IF YearOf(w[1]) % 4 = 0 THEN 366 ELSE 365

(* C15: averageDaily is totalExpenses divided by 7 for a weekly window, by  *)
(* the number of days of the month for a monthly window, by the number of   *)
(* calendar days of the half (181 or 182 for Jan-Jun, 184 for Jul-Dec) for  *)
(* a half-yearly window, and by 366 exactly when year % 4 = 0, else 365,    *)
(* for a yearly window; current and previous windows alike.  The half year  *)
(* is counted from the elapsed time, which daylight saving time lengthens   *)
(* by an hour, so this fails.                                               *)
C15_DayCounts ==
  \A sw \in SummaryWindows :
    /\ KindOf(result.query) = "half" =>
         DayCount("half", sw[2]) \in
           (IF sw[2][1] = DayNumber(YearOf(sw[2][1]), 0, 1) THEN {181, 182}
            ELSE {184})
    /\ sw[1].averageDaily
         = Rat(sw[1].totalExpenses, DayCount(KindOf(result.query), sw[2]))

\* the label of the month after the one labelled <<month, two-digit year>>
NextLabel(l) == IF l[1] = 11 THEN <<0, (l[2] + 1) % 100>> ELSE <<l[1] + 1, l[2]>>

(* C16: getSpendingTrends returns exactly 6 points for 6 consecutive        *)
(* calendar months, oldest first (crossing a year boundary when the clock   *)
(* is in Jan-May), the last being the clock's month; each point holds the   *)
(* income and expenses of its own month from the 1st through the last day,  *)
(* savings = income - expenses, and no transaction is in two points.        *)
C16_SpendingTrends ==
  result.query = "getSpendingTrends" =>
    LET points == result.value
    IN  /\ Len(points) = 6
        /\ points[6].month = <<now.m, now.y % 100>>
        /\ \A k \in 1..5 :
             /\ points[k + 1].month = NextLabel(points[k].month)
             /\ TrendWindow(k + 1)[1] = TrendWindow(k)[2] + 1
        /\ TrendWindow(6) = CurrentWindow("month")
        /\ \A k \in 1..6 :
             /\ points[k].income = AbsTotal(TypedIn(TrendWindow(k), "income"))
             /\ points[k].expenses = AbsTotal(TypedIn(TrendWindow(k), "expense"))
             /\ points[k].savings = points[k].income - points[k].expenses
        /\ \A j, k \in 1..6 :
             j # k => InWindow(TrendWindow(j)) \cap InWindow(TrendWindow(k)) = {}

\* in January the oldest point is August of the year before, and holds the
\* transaction of that month
C16_Witness ==
  /\ result.query = "getSpendingTrends"
  /\ now.m = 0
  /\ result.value[1].month = <<7, (now.y - 1) % 100>>
  /\ result.value[1].income + result.value[1].expenses > 0

(* C17: getCategoryComparison returns exactly one entry per category label  *)
(* found on an expense of the clock's month or of the month before (the     *)
(* union, without duplicates, labels compared case-sensitively), none for a *)
(* label found on incomes only; currentMonth and previousMonth are the sums *)
(* of |amount| of the label's expenses in the two months; the entries are   *)
(* sorted by currentMonth, largest first.                                   *)
C17_CategoryComparison ==
  result.query = "getCategoryComparison" =>
    LET entries == result.value
        cur == CurrentWindow("month")
        prev == PreviousWindow("month")
        cats == ExpenseCategoriesIn(cur) \cup ExpenseCategoriesIn(prev)
    IN  /\ {entries[i].category : i \in 1..Len(entries)} = cats
        /\ Len(entries) = Cardinality(cats)
        /\ \A i \in 1..Len(entries) :
             /\ entries[i].currentMonth
                  = AbsTotal(ExpensesOf(cur, entries[i].category))
             /\ entries[i].previousMonth
                  = AbsTotal(ExpensesOf(prev, entries[i].category))
        /\ \A i, j \in 1..Len(entries) :
             i < j => entries[i].currentMonth >= entries[j].currentMonth

\* "Food" this month, "food" last month only, an income under "Salary"
C17_Witness ==
  /\ result.query = "getCategoryComparison"
  /\ Len(result.value) = 2
  /\ ExpensesOf(CurrentWindow("month"), "Food") # {}
  /\ result.value[2].category = "food"
  /\ result.value[2].currentMonth = 0
  /\ result.value[2].previousMonth > 0
  /\ \E i \in 1..Len(transactions) : transactions[i].category = "Salary"

(* C18: the change of every getCategoryComparison entry is what the growth  *)
(* helper of the comparison queries returns for (currentMonth,              *)
(* previousMonth): (current - previous) / previous x 100 when previous > 0, *)
(* 100 when previous = 0 and current > 0, 0 when both are 0.                *)
C18_ChangeIsGrowth ==
  result.query = "getCategoryComparison" =>
    \A i \in 1..Len(result.value) :
      LET entry == result.value[i]
      IN  /\ entry.currentMonth >= 0
          /\ entry.previousMonth >= 0
          /\ entry.change
               = CalculateGrowth(entry.currentMonth, entry.previousMonth)
          /\ entry.change = GrowthRule(entry.currentMonth, entry.previousMonth)

\* one entry that is new this month and one that grew from last month
C18_Witness ==
  /\ result.query = "getCategoryComparison"
  /\ \E i \in 1..Len(result.value) :
       result.value[i].previousMonth = 0 /\ result.value[i].currentMonth > 0
  /\ \E i \in 1..Len(result.value) :
       /\ result.value[i].previousMonth > 0
       /\ result.value[i].currentMonth > result.value[i].previousMonth

\* the savings rate of the clock's month, from the snapshot
MonthSavingsRate ==
  LET income == AbsTotal(TypedIn(CurrentWindow("month"), "income"))
      expenses == AbsTotal(TypedIn(CurrentWindow("month"), "expense"))
  IN  IF income > 0 THEN Rat(100 * (income - expenses), income) ELSE RZero

\* the growth of the income of the clock's month over the month before
MonthIncomeGrowth ==
  GrowthRule(AbsTotal(TypedIn(CurrentWindow("month"), "income")),
             AbsTotal(TypedIn(PreviousWindow("month"), "income")))

MonthExpenseCategories ==
  {transactions[i].category : i \in TypedIn(CurrentWindow("month"), "expense")}

\* the share, in percent, of category c in the expenses of the clock's month
MonthShare(c) ==
  LET total == AbsTotal(TypedIn(CurrentWindow("month"), "expense"))
  IN  IF total > 0
      THEN Rat(100 * AbsTotal(ExpensesOf(CurrentWindow("month"), c)), total)
      ELSE RZero

\* p is the largest share of a category of the month
IsLargestShare(p) ==
  /\ \E c \in MonthExpenseCategories : MonthShare(c) = p
  /\ \A c \in MonthExpenseCategories : RLeq(MonthShare(c), p)

(* C20: the Expense Balance sub-score depends only on the largest           *)
(* topCategories percentage p of the current month, with strict boundaries: *)
(* 100 when the month has no categories, 30 when p > 50, 50 when            *)
(* 40 < p <= 50, 70 when 30 < p <= 40 and 90 when p <= 30.                  *)
C20_ExpenseBalance ==
  IsHealth =>
    /\ MonthExpenseCategories = {} => FactorScore(4) = NInt(100)
    /\ \A c \in MonthExpenseCategories :
         LET p == MonthShare(c)
         IN  IsLargestShare(p) =>
               /\ RLess(FromInt(50), p) => FactorScore(4) = NInt(30)
               /\ (RLess(FromInt(40), p) /\ RLeq(p, FromInt(50)))
                    => FactorScore(4) = NInt(50)
               /\ (RLess(FromInt(30), p) /\ RLeq(p, FromInt(40)))
                    => FactorScore(4) = NInt(70)
               /\ RLeq(p, FromInt(30)) => FactorScore(4) = NInt(90)

\* the largest category holds exactly 40% of the expenses of the month
C20_Witness ==
  /\ IsHealth
  /\ \E c \in MonthExpenseCategories :
       /\ IsLargestShare(MonthShare(c))
       /\ RLeq(MonthShare(c), FromInt(40))
       /\ RLeq(FromInt(40), MonthShare(c))
  /\ FactorScore(4) = NInt(70)

\* the expenses, in tenths, of the trend month k of 6
TrendExpenses(k) == AbsTotal(TypedIn(TrendWindow(k), "expense"))

\* the sum of the first k of them
RECURSIVE TrendExpensesTo(_)
TrendExpensesTo(k) ==
  IF k = 0 THEN 0 ELSE TrendExpensesTo(k - 1) + TrendExpenses(k)

\* the sum of the first k squared deviations from the mean, times 36
RECURSIVE TrendDeviationsTo(_)
TrendDeviationsTo(k) ==
  IF k = 0 THEN 0
  ELSE TrendDeviationsTo(k - 1)
       + (6 * TrendExpenses(k) - TrendExpensesTo(6))
         * (6 * TrendExpenses(k) - TrendExpensesTo(6))

TrendIsFlat == \A k \in 1..6 : TrendExpenses(k) = TrendExpenses(1)

\* a double as the natural number d * 2^60, rounded down
FixedPoint(d) ==
  IF d = DZero THEN <<>>
  ELSE IF d.e + 60 >= 0 THEN BigShl(d.m, d.e + 60)
  ELSE BigShr(d.m, -(d.e + 60))

\* 2^-40 on that scale: what the roundings of calculateVariation can add up to
Slack == BigShl(<<1>>, 20)

\* x is within 2^-40 of max(0, 100 - variation), where variation is
\* (standard deviation / mean) x 100 of the six trend months without
\* rounding, or 0 when the mean is 0.  With S the sum of the six and Q the 36
\* fold sum of their squared deviations, variation^2 = 10^4 x Q / (6 x S^2).
NearConsistency(x) ==
  LET S == TrendExpensesTo(6)
      Q == TrendDeviationsTo(6)
      scale == BigOf(6 * S * S)
      exact == BigShl(BigOf(10000 * Q), 120)
      low == IF BigLeq(Hundred, BigAdd(x, Slack)) THEN <<>>
             ELSE BigSub(Hundred, BigAdd(x, Slack))
      high == BigSub(BigAdd(Hundred, Slack), x)
  IN  /\ BigLeq(x, Hundred)
      /\ S = 0 => x = Hundred
      /\ (S > 0 /\ Q <= 6 * S * S) =>
           /\ BigLeq(BigMul(BigMul(low, low), scale), exact)
           /\ BigLeq(exact, BigMul(BigMul(high, high), scale))
      /\ (S > 0 /\ Q > 6 * S * S) => BigLeq(x, Slack)

(* C21 as stated: the Spending Consistency sub-score is max(0, 100 -        *)
(* variation) with variation = (population standard deviation / mean) x 100 *)
(* of the six trend months' expenses (0 when the mean is 0), it lies in     *)
(* 0..100, and it is exactly 100 whenever the six totals are all equal.     *)
C21_ConsistencyAsStated ==
  IsHealth =>
    /\ NearConsistency(FixedPoint(FactorScore(2)))
    /\ TrendIsFlat => FactorScore(2) = DOf(100)

(* C21: the Spending Consistency sub-score is max(0, 100 - variation) with  *)
(* variation = (population standard deviation / mean) x 100 of the six      *)
(* trend months' expenses (0 when the mean is 0), computed in double        *)
(* precision and so equal to the exact value to within 2^-40; it is never   *)
(* above 100 and is 100 when the mean is 0.  When the six totals are all    *)
(* equal it is within 2^-45 of 100, and exactly 100 when the equal total is *)
(* a whole number.                                                          *)
C21_Consistency ==
  IsHealth =>
    /\ NearConsistency(FixedPoint(FactorScore(2)))
    /\ TrendIsFlat =>
         /\ Near(FixedPoint(FactorScore(2)), Hundred, Rounding)
         /\ TrendExpenses(1) % Tenths = 0 => FactorScore(2) = DOf(100)

\* six months of 0.1 each: the mean is not the double 0.1 and the sub-score
\* is just below 100
C21_Witness ==
  /\ IsHealth
  /\ TrendIsFlat
  /\ TrendExpenses(1) = 1
  /\ FactorScore(2) # DOf(100)
  /\ Near(FixedPoint(FactorScore(2)), Hundred, Rounding)

-----------------------------------------------------------------------------
(* Unparseable dates                                                       *)

ParseableOf(txs) == SelectSeq(txs, LAMBDA t : ParseDate(t.date) # NaN)
HasUnparseable == \E i \in DOMAIN transactions : transactions[i].date = NaN

SeqRange(s) == {s[i] : i \in DOMAIN s}
EntriesOfSummary(s) == [s EXCEPT !.topCategories = SeqRange(@)]

\* the value v of query q, its lists of categories taken as sets
Entries(q, v) ==
  IF q \in AnalyticsQueries THEN EntriesOfSummary(v)
  ELSE IF q \in ComparisonQueries
       THEN [v EXCEPT !.current = EntriesOfSummary(@),
                      !.previous = EntriesOfSummary(@)]
       ELSE IF q = "getCategoryComparison" THEN SeqRange(v) ELSE v

\* an engine constructed from the parseable transactions, in some order
EnginesWithoutUnparseable ==
  {SortByDate(p) : p \in Orderings(ParseableOf(transactions))}

C23_SnapshotSorted ==
  [][Construct /\ (\A i \in DOMAIN list : list[i].date # NaN) =>
       \E p \in Permutations(DOMAIN list) :
         /\ transactions' = [i \in DOMAIN list |-> list[p[i]]]
         /\ \A i, j \in DOMAIN list :
              i < j =>
                /\ ParseDate(list[p[i]].date) >= ParseDate(list[p[j]].date)
                /\ list[p[i]].date = list[p[j]].date => p[i] < p[j]]_vars

\* the snapshot of a list of two transactions of one date followed by a
\* newer one (the id of a transaction is its position in the list)
C23_Witness ==
  /\ constructed
  /\ Len(transactions) = 3
  /\ \A i \in 1..3 : transactions[i].date # NaN
  /\ transactions[1].id = 3 /\ transactions[2].id = 1 /\ transactions[3].id = 2
  /\ transactions[1].date > transactions[2].date
  /\ transactions[2].date = transactions[3].date

-----------------------------------------------------------------------------
(* Input order                                                             *)

Swap(s, i) == [s EXCEPT ![i] = s[i + 1], ![i + 1] = s[i]]

\* the snapshots of the engines constructed from the transactions of this
\* one with two neighbours of the list exchanged; every order of the list is
\* reached by a chain of such exchanges
ReorderedEngines ==
  {SortByDate(Swap(transactions, i)) : i \in 1..(Len(transactions) - 1)}

SameRanking(a, b) ==
  /\ Len(a) = Len(b)
  /\ \A i \in 1..Len(a) : a[i].amount = b[i].amount
  /\ LET cut == IF Len(a) = TopN THEN a[TopN].amount ELSE -1
     IN  {a[i] : i \in {j \in 1..Len(a) : a[j].amount > cut}}
           = {b[i] : i \in {j \in 1..Len(b) : b[j].amount > cut}}

SameSummary(s, t) ==
  /\ [s EXCEPT !.topCategories = <<>>] = [t EXCEPT !.topCategories = <<>>]
  /\ SameRanking(s.topCategories, t.topCategories)

SameUpToTies(q, v, w) ==
  IF q \in AnalyticsQueries THEN SameSummary(v, w)
  ELSE IF q \in ComparisonQueries
       THEN /\ SameSummary(v.current, w.current)
            /\ SameSummary(v.previous, w.previous)
            /\ v.growth = w.growth
       ELSE IF q = "getCategoryComparison"
            THEN /\ SeqRange(v) = SeqRange(w)
                 /\ Len(v) = Len(w)
                 /\ \A i \in 1..Len(v) : v[i].currentMonth = w[i].currentMonth
            ELSE v = w

C27_SavingsGrowthSign ==
  result.query \in ComparisonQueries =>
    (RLeq(RZero, result.value.growth.savings)
       <=> result.value.current.netAmount >= result.value.previous.netAmount)

-----------------------------------------------------------------------------
(* Analytics and comparison                                                *)

AnalyticsOf(q) ==
  CASE q = "getWeeklyComparison" -> "getWeeklyAnalytics"
    [] q = "getMonthlyComparison" -> "getMonthlyAnalytics"
    [] q = "getHalfYearlyComparison" -> "getHalfYearlyAnalytics"
    [] q = "getYearlyComparison" -> "getAnnualAnalytics"

Unlabelled(s) == [s EXCEPT !.period = ""]

(* C26: the current summary of every comparison is, but for its label, the  *)
(* summary the analytics query of the same kind returns on the same         *)
(* snapshot at the same clock.                                              *)
C26_CurrentIsAnalytics ==
  result.query \in ComparisonQueries =>
    Unlabelled(result.value.current)
      = Unlabelled(Answer(AnalyticsOf(result.query), transactions))

\* a half-yearly comparison in a zone with daylight saving time, its current
\* half holding a transaction with expenses
C26_Witness ==
  /\ result.query = "getHalfYearlyComparison"
  /\ tz.dst # "none"
  /\ result.value.current.transactionCount = 1
  /\ result.value.current.totalExpenses > 0
  /\ result.value.current.period # Answer("getHalfYearlyAnalytics", transactions).period

-----------------------------------------------------------------------------
(* The clock readings of the health score                                  *)

(* C24: the three queries of one getFinancialHealthScore() read the clock   *)
(* in the same calendar month, so that the last trend point is the month of *)
(* the monthly summary and the current month of the comparison is that      *)
(* summary.  Each query reads the wall clock when it is called, and the     *)
(* month can change between two of them, so this fails.                     *)
C24_OneClockReading ==
  call.pc = "returned" =>
    /\ \A i, j \in 1..Len(call.clock) :
         /\ call.clock[i].y = call.clock[j].y
         /\ call.clock[i].m = call.clock[j].m
    /\ call.trends[TrendMonths].month
         = <<call.clock[1].m, call.clock[1].y % 100>>
    /\ Unlabelled(call.comparison.current) = Unlabelled(call.monthlyAnalytics)

-----------------------------------------------------------------------------
(* Currency changes                                                        *)

\* every amount that a currency change converts
Amounts30(st, se) ==
  [transactions |-> [i \in DOMAIN st |-> st[i].amount],
   budgetGoals |-> se.budgetGoals, savingsTarget |-> se.savingsTarget,
   goalTargets |-> se.goalTargets, userSalary |-> se.userSalary]

(* C30: once the updates of a currency change are processed, every amount   *)
(* is what it was before the change if the change was to the currency in    *)
(* use, and what it was two changes earlier if the last two changes, both   *)
(* converting, led from a currency to another one and back.  Each           *)
(* conversion rounds to one decimal place, so the way back does not         *)
(* restore the amounts and this fails.                                      *)
C30_RoundTrip ==
  updates = <<>> =>
    /\ Len(history) >= 1 =>
         LET last == history[Len(history)]
         IN  last.to = last.settings.currency =>
               Amounts30(store, settings)
                 = Amounts30(last.store, last.settings)
    /\ Len(history) >= 2 =>
         LET first == history[Len(history) - 1]
             second == history[Len(history)]
         IN  (/\ first.convertExistingData
              /\ second.convertExistingData
              /\ second.to = first.settings.currency)
             => Amounts30(store, settings)
                  = Amounts30(first.store, first.settings)

-----------------------------------------------------------------------------
(* The transaction store                                                   *)

(* C25: no two transactions of the store share an id.  addTransaction takes *)
(* the id from Date.now(), and two calls in one millisecond get the same    *)
(* id, so this fails.                                                       *)
C25_UniqueIds ==
  \A i, j \in DOMAIN store : store[i].id = store[j].id => i = j

\* the step that applies the replacement requested by addTransactions
Replacement == ProcessUpdate /\ Head(updates).op = "replace"

\* the store after the step holds the batch, one transaction for each
\* element, newest first, transactions of one date in the order of the batch
HoldsBatch(batch) ==
  \E p \in Permutations(DOMAIN batch) :
    /\ store' = [i \in DOMAIN batch |-> batch[p[i]]]
    /\ \A i, j \in DOMAIN batch :
         i < j =>
           /\ ParseDate(batch[p[i]].date) >= ParseDate(batch[p[j]].date)
           /\ batch[p[i]].date = batch[p[j]].date => p[i] < p[j]

\* the ids of the store after the step differ from each other and from
\* the ids of the transactions stored before it
FreshIds ==
  /\ \A i, j \in DOMAIN store' : store'[i].id = store'[j].id => i = j
  /\ \A i \in DOMAIN store' : \A j \in DOMAIN store :
       store'[i].id # store[j].id

\* a promise starts pending in the step that requests its replacement and
\* is resolved in a later step
ResolvesAfterRequest ==
  /\ Len(promises') > Len(promises) =>
       /\ Len(promises') = Len(promises) + 1
       /\ promises'[Len(promises')] = "pending"
       /\ updates' # <<>>
       /\ updates'[Len(updates')].op = "replace"
  /\ \A i \in DOMAIN promises' :
       promises'[i] = "resolved" => i \in DOMAIN promises

(* C29: when the replacement requested by addTransactions(batch) is        *)
(* applied, the store holds exactly the transactions of the batch, newest   *)
(* first, each with an id that no transaction stored before had, and the    *)
(* promise of a call is resolved only in a step after the one that          *)
(* requested the replacement.  The ids are made of Date.now() and the       *)
(* index in the batch, so a second call in the same millisecond repeats     *)
(* the ids of the first and this fails.                                     *)
C29_ReplacesWithFreshIds ==
  [][/\ Replacement => HoldsBatch(Head(updates).txs) /\ FreshIds
     /\ ResolvesAfterRequest]_vars

=============================================================================
